---------------------------- MODULE Spec2Model ----------------------------
(***************************************************************************)
(* VertBot: the market-monitoring / report-scheduling core.                *)
(*                                                                         *)
(*   src/bot/main.py        MarketMonitor, monitor_price_changes,          *)
(*                          check_price_changes, send_daily_report,        *)
(*                          fetch_market_data                              *)
(*   src/api/market_data.py fetch_closing_price (lru_cache),               *)
(*                          fetch_current_price (_price_cache, CACHE_TTL)  *)
(*   src/bot/commands/tickers.py  add_ticker                               *)
(*   src/api/news_data.py   fetch_news, fetch_general_market_news          *)
(*   src/ai/deepseek_llm.py query_deepseek                                 *)
(*                                                                         *)
(* Units.  Percentages are integers in hundredths of a percent (2.5 % is   *)
(* 250), prices are integers in cents, the clock is a record               *)
(* [day, tod] with tod in seconds since midnight.  The host's local        *)
(* calendar date (datetime.date.today(), naive datetime.now()) and the     *)
(* US/Eastern date are both read from that one clock.                      *)
(*                                                                         *)
(* Granularity.  A polling pass and a report invocation are one step each: *)
(* the clock does not move inside them and no other task runs at their     *)
(* awaits.  A running scheduler runs a job at its run time, before the     *)
(* clock moves on, so misfire_grace_time never comes into play.  Two       *)
(* specifications look inside: SpecLoop at the requests.get call of a      *)
(* pass, SpecOverlap at the `await channel.send` of a report invocation.   *)
(* SpecClock alone carries the clock to the microsecond ([day, tod, us]).  *)
(* APScheduler is not part of src/: start, shutdown and add_job follow     *)
(* their documented behaviour.                                             *)
(***************************************************************************)
EXTENDS Integers, Sequences, FiniteSets, TLC

VARIABLES
    now,                \* wall clock: [day |-> d, tod |-> seconds]
    announced_changes,  \* MarketMonitor.announced_changes: dict (guild, symbol) -> pct
    daily_report_sent,  \* MarketMonitor.daily_report_sent
    last_report_date,   \* MarketMonitor.last_report_date (NoDate for None)
    yesterdays_closes,  \* MarketMonitor.yesterdays_closes: dict symbol -> price
    last_close_fetch,   \* MarketMonitor.last_close_fetch (NoDate for None)
    last_price_check,   \* MarketMonitor.last_price_check (NoTime for None)
    last_daily_report,  \* MarketMonitor.last_daily_report (NoTime for None)
    closing_memo,       \* lru_cache of fetch_closing_price: sequence of entries, least recently used first
    price_cache,        \* market_data._price_cache: dict symbol -> [price, timestamp]
    sched,              \* the AsyncIOScheduler [running, jobs: id -> next run time] and whether the watchdog task exists
    channels_file,      \* config/channels.json as read by load_channels
    tickers_file,       \* config/tickers.json as read by load_tickers
    tasks,              \* the asyncio side: the monitor task, the event loop, report coroutines in flight
    ev                  \* the last operation performed and what it did (observation only)

vars == <<now, announced_changes, daily_report_sent, last_report_date,
          yesterdays_closes, last_close_fetch, last_price_check,
          last_daily_report, closing_memo, price_cache, sched,
          channels_file, tickers_file, tasks, ev>>

-----------------------------------------------------------------------------
(* Bounds and sample sets *)

MaxGuild == 2
MaxDay == 1

Guilds == 1..MaxGuild
Symbols == {"AAPL", "MSFT"}
Days == 0..MaxDay

-----------------------------------------------------------------------------
(* Program constants *)

BIG_CHANGE_THRESHOLD == 250
PRICE_CHECK_INTERVAL == 300
CACHE_TTL == 60
LRU_MAXSIZE == 100
NoDate == -1

SecondsPerDay == 24 * 3600

-----------------------------------------------------------------------------
(* Python helpers *)

Abs(x) == IF x < 0 THEN -x ELSE x

\* d[k] = v on a dict d
DictSet(d, k, v) == [x \in (DOMAIN d) \cup {k} |-> IF x = k THEN v ELSE d[x]]

EmptyDict == <<>>

\* The elements of a list.
Range(seq) == {seq[i] : i \in 1..Len(seq)}

\* The observation record: which operation ran last and what it did.
BaseEv(op) ==
    [op |-> op, guild |-> 0, syms |-> <<>>, pct |-> 0, ret |-> "",
     price |-> 0, date |-> NoDate, upstream |-> <<>>, failed |-> {},
     sent |-> {}, visited |-> {},
     had |-> FALSE, last |-> 0, after_reset |-> FALSE, cleared |-> <<>>,
     results |-> <<>>, retry |-> FALSE, cfg |-> "", errors |-> {},
     checked |-> {}, senderr |-> {}, content |-> <<>>]

-----------------------------------------------------------------------------
(* ChangeAnnouncer: MarketMonitor.should_announce_change / reset_daily_tracking *)

\* Percentage changes offered to should_announce_change: below the threshold,
\* exactly at it, above it, and equal magnitudes of opposite sign.
PctValues == {-250, 100, 250, 300}

Keys == Guilds \X Symbols

\* Mutant: the comparison with the last announcement is not strict.
MayOverwrite_NotStrict(ac, key, pct_change) ==
    \/ key \notin DOMAIN ac
    \/ ac[key] = 0
    \/ Abs(pct_change) >= Abs(ac[key])

\* `not last_announcement or abs(pct_change) > abs(last_announcement)`:
\* dict.get gives None for a missing key, and `not` is also true of 0.0.
MayOverwrite(ac, key, pct_change) ==
    \/ key \notin DOMAIN ac
    \/ ac[key] = 0
    \/ Abs(pct_change) > Abs(ac[key])

\* Mutant: a change exactly at the threshold is treated as too small.
BelowThreshold_Inclusive(pct_change) == Abs(pct_change) <= BIG_CHANGE_THRESHOLD

\* `abs(pct_change) < BIG_CHANGE_THRESHOLD`
BelowThreshold(pct_change) == Abs(pct_change) < BIG_CHANGE_THRESHOLD

\* Mutant: the record is keyed by the symbol alone, so it is shared by all guilds.
Announce_BySymbol(ac, guild_id, symbol, pct_change) ==
    [x \in (DOMAIN ac) \cup (Guilds \X {symbol}) |->
        IF x[2] = symbol THEN pct_change ELSE ac[x]]

\* `self.announced_changes[key] = pct_change` with key = (guild_id, symbol)
Announce(ac, guild_id, symbol, pct_change) ==
    DictSet(ac, <<guild_id, symbol>>, pct_change)

\* Returns [ret, ac]: the boolean result and announced_changes afterwards.
should_announce_change(ac, guild_id, symbol, pct_change) ==
    IF BelowThreshold(pct_change)
    THEN [ret |-> FALSE, ac |-> ac]
    ELSE IF MayOverwrite(ac, <<guild_id, symbol>>, pct_change)
         THEN [ret |-> TRUE, ac |-> Announce(ac, guild_id, symbol, pct_change)]
         ELSE [ret |-> FALSE, ac |-> ac]

\* Mutant: the reset leaves the announcement records in place.
ClearedAnnouncements_Kept(ac) == ac

\* `self.announced_changes.clear()`
ClearedAnnouncements(ac) == EmptyDict

BoolStr(b) == IF b THEN "True" ELSE "False"

\* A direct call of should_announce_change with an arbitrary percentage.
ShouldAnnounceCall(g, s, p) ==
    LET r == should_announce_change(announced_changes, g, s, p) IN
    /\ announced_changes' = r.ac
    /\ ev' = [BaseEv("should_announce_change") EXCEPT
                 !.guild = g, !.syms = <<s>>, !.pct = p, !.ret = BoolStr(r.ret),
                 !.had = (<<g, s>> \in DOMAIN announced_changes),
                 !.last = IF <<g, s>> \in DOMAIN announced_changes
                          THEN announced_changes[<<g, s>>] ELSE 0,
                 !.after_reset = (ev.op = "reset_daily_tracking"),
                 !.cleared = IF ev.op = "reset_daily_tracking"
                                THEN [k \in (DOMAIN ev.cleared) \cap {<<g, s>>} |-> ev.cleared[k]]
                                ELSE <<>>]
    /\ UNCHANGED <<now, daily_report_sent, last_report_date, yesterdays_closes,
                   last_close_fetch, last_price_check, last_daily_report,
                   closing_memo, price_cache, sched, channels_file, tickers_file, tasks>>

\* MarketMonitor.reset_daily_tracking (the 'daily_reset' job's function).
reset_daily_tracking ==
    /\ daily_report_sent' = FALSE
    /\ announced_changes' = ClearedAnnouncements(announced_changes)
    /\ ev' = [BaseEv("reset_daily_tracking") EXCEPT !.cleared = announced_changes]
    /\ UNCHANGED <<now, last_report_date, yesterdays_closes,
                   last_close_fetch, last_price_check, last_daily_report,
                   closing_memo, price_cache, channels_file, tickers_file, tasks>>

-----------------------------------------------------------------------------
(* The Finnhub quote endpoint, as seen through requests.get(url).json() *)

\* c / pc pairs the upstream may report (cents).
QuotePrices == {[c |-> 15450, pc |-> 15000], [c |-> 15000, pc |-> 15450]}

\* The quote's timestamp "t" is of the request's day or of the day before.
QuoteDays(d) == {x \in Days : d - 1 <= x /\ x <= d}

\* A response is a quote, or one of:
\*   "error"  the JSON carries an "error" field
\*   "nodata" the JSON lacks "c" or "t"
\*   "nopc"   the JSON has "c" and "t" but no "pc"
\*   "neterr" requests.get or response.json() raised
Failure(k) == [kind |-> k, c |-> 0, pc |-> 0, t |-> NoDate]
NoPc(c, t) == [kind |-> "nopc", c |-> c, pc |-> 0, t |-> t]

Responses(d) ==
    {[kind |-> "quote", c |-> p.c, pc |-> p.pc, t |-> t] : p \in QuotePrices, t \in QuoteDays(d)}
    \cup {NoPc(15450, d)}
    \cup {Failure(k) : k \in {"error", "nodata", "neterr"}}

\* Seconds on the clock.
Secs(t) == t.day * SecondsPerDay + t.tod

\* datetime.date.today() / now.date()
DateOf(t) == t.day

-----------------------------------------------------------------------------
(* fetch_current_price and its TTL cache *)

\* Mutant: an entry of age exactly CACHE_TTL is still served.
Fresh_Inclusive(age) == age <= CACHE_TTL

\* `now - timestamp < _cache_ttl`
Fresh(age) == age < CACHE_TTL

\* `symbol in _price_cache` and the entry is fresh
CacheHit(cache, symbol, t) ==
    /\ symbol \in DOMAIN cache
    /\ Fresh(Secs(t) - Secs(cache[symbol].timestamp))

\* Mutant: the failure path stores the (empty) result of the failed request.
CurrentFailure_Cached(cache, symbol, resp, t) ==
    DictSet(cache, symbol, [price |-> resp.c, timestamp |-> t])

\* The cache after a request that raised: nothing is written.
CurrentFailure(cache, symbol, resp, t) == cache

\* Returns [ret, price, date, cache, upstream]: the outcome ("ok" or the
\* exception raised), the pair returned, _price_cache afterwards and whether
\* an HTTP request was made.
fetch_current_price(cache, symbol, resp, t) ==
    IF CacheHit(cache, symbol, t)
    THEN [ret |-> "ok", price |-> cache[symbol].price,
          date |-> DateOf(cache[symbol].timestamp),
          cache |-> cache, upstream |-> FALSE]
    ELSE IF resp.kind = "neterr"
    THEN [ret |-> "RequestException", price |-> 0, date |-> NoDate,
          cache |-> CurrentFailure(cache, symbol, resp, t), upstream |-> TRUE]
    ELSE IF resp.kind \in {"error", "nodata"}
    THEN [ret |-> "MarketDataException", price |-> 0, date |-> NoDate,
          cache |-> CurrentFailure(cache, symbol, resp, t), upstream |-> TRUE]
    ELSE [ret |-> "ok", price |-> resp.c, date |-> resp.t,
          cache |-> DictSet(cache, symbol, [price |-> resp.c, timestamp |-> t]),
          upstream |-> TRUE]

\* A call of fetch_current_price (the !current command, addticker's
\* validation, one ticker of check_price_changes).
FetchCurrentPriceCall(s, resp) ==
    LET r == fetch_current_price(price_cache, s, resp, now) IN
    /\ price_cache' = r.cache
    /\ ev' = [BaseEv("fetch_current_price") EXCEPT
                 !.syms = <<s>>, !.ret = r.ret, !.price = r.price, !.date = r.date,
                 !.upstream = IF r.upstream THEN <<s>> ELSE <<>>,
                 !.failed = IF r.ret = "ok" THEN {} ELSE {s},
                 !.had = (s \in DOMAIN price_cache),
                 !.retry = (s \in ev.failed),
                 !.content = IF r.upstream THEN <<resp.kind>> ELSE <<>>,
                 !.last = IF s \in DOMAIN price_cache
                          THEN Secs(now) - Secs(price_cache[s].timestamp) ELSE 0]
    /\ UNCHANGED <<now, announced_changes, daily_report_sent, last_report_date,
                   yesterdays_closes, last_close_fetch, last_price_check,
                   last_daily_report, closing_memo, sched, channels_file, tickers_file, tasks>>

-----------------------------------------------------------------------------
(* fetch_closing_price and its lru_cache *)

\* The position of symbol's entry in the memo, 0 when there is none.
MemoIndex(memo, symbol) ==
    IF \E i \in 1..Len(memo) : memo[i].sym = symbol
    THEN CHOOSE i \in 1..Len(memo) : memo[i].sym = symbol
    ELSE 0

\* The sequence without its i-th element.
Without(seq, i) == [j \in 1..(Len(seq) - 1) |-> IF j < i THEN seq[j] ELSE seq[j + 1]]

\* A hit moves the entry to the most recently used end.
MemoTouch(memo, i) == Append(Without(memo, i), memo[i])

\* A new result is stored; beyond maxsize the least recently used one is dropped.
MemoStore(memo, entry) ==
    LET m == Append(memo, entry) IN
    IF Len(m) > LRU_MAXSIZE THEN Tail(m) ELSE m

\* Mutant: lru_cache also remembers a call that raised.
ClosingFailure_Cached(memo, symbol, resp, t) ==
    MemoStore(memo, [sym |-> symbol, price |-> resp.pc, date |-> resp.t])

\* The memo after a call that raised: lru_cache stores only returned values.
ClosingFailure(memo, symbol, resp, t) == memo

\* Returns [ret, price, date, memo, upstream].
fetch_closing_price(memo, symbol, resp, t) ==
    LET i == MemoIndex(memo, symbol) IN
    IF i # 0
    THEN [ret |-> "ok", price |-> memo[i].price, date |-> memo[i].date,
          memo |-> MemoTouch(memo, i), upstream |-> FALSE]
    ELSE IF resp.kind = "neterr"
    THEN [ret |-> "RequestException", price |-> 0, date |-> NoDate,
          memo |-> ClosingFailure(memo, symbol, resp, t), upstream |-> TRUE]
    ELSE IF resp.kind \in {"error", "nodata"}
    THEN [ret |-> "MarketDataException", price |-> 0, date |-> NoDate,
          memo |-> ClosingFailure(memo, symbol, resp, t), upstream |-> TRUE]
    ELSE IF resp.kind = "nopc"
    THEN [ret |-> "KeyError", price |-> 0, date |-> NoDate,
          memo |-> ClosingFailure(memo, symbol, resp, t), upstream |-> TRUE]
    ELSE [ret |-> "ok", price |-> resp.pc, date |-> resp.t,
          memo |-> MemoStore(memo, [sym |-> symbol, price |-> resp.pc, date |-> resp.t]),
          upstream |-> TRUE]

\* A direct call of fetch_closing_price (the !price command).
FetchClosingPriceCall(s, resp) ==
    LET r == fetch_closing_price(closing_memo, s, resp, now) IN
    /\ closing_memo' = r.memo
    /\ ev' = [BaseEv("fetch_closing_price") EXCEPT
                 !.syms = <<s>>, !.ret = r.ret, !.price = r.price, !.date = r.date,
                 !.upstream = IF r.upstream THEN <<s>> ELSE <<>>,
                 !.failed = IF r.ret = "ok" THEN {} ELSE {s},
                 !.had = (MemoIndex(closing_memo, s) # 0),
                 !.content = IF r.upstream THEN <<resp.kind>> ELSE <<>>,
                 !.retry = (s \in ev.failed)]
    /\ UNCHANGED <<now, announced_changes, daily_report_sent, last_report_date,
                   yesterdays_closes, last_close_fetch, last_price_check,
                   last_daily_report, price_cache, sched, channels_file, tickers_file, tasks>>

-----------------------------------------------------------------------------
(* MarketMonitor.fetch_closing_prices: the once-per-day dictionary *)

\* Mutant: the dictionary is never emptied when the date changes.
DayRollover_Never(yc, last_fetch, today) == yc

\* `if self.last_close_fetch != today: self.yesterdays_closes.clear()`
DayRollover(yc, last_fetch, today) ==
    IF last_fetch # today THEN EmptyDict ELSE yc

\* Mutant: a failed fetch leaves a zero price in the dictionary.
ClosesAfterFailure_Zero(yc, symbol) == DictSet(yc, symbol, 0)

\* The `except Exception` branch: the dictionary is not written.
ClosesAfterFailure(yc, symbol) == yc

\* One iteration of `for symbol in symbols` on the loop state
\* st = [yc, memo, results, upstream, failed].
ClosingIteration(st, symbol, resp, t) ==
    IF symbol \in DOMAIN st.yc
    THEN [st EXCEPT !.results = DictSet(st.results, symbol, st.yc[symbol])]
    ELSE LET r == fetch_closing_price(st.memo, symbol, resp, t)
             yc2 == IF r.ret = "ok" THEN DictSet(st.yc, symbol, r.price)
                    ELSE ClosesAfterFailure(st.yc, symbol)
         IN [yc |-> yc2,
             memo |-> r.memo,
             results |-> IF r.ret = "ok" THEN DictSet(st.results, symbol, r.price)
                         ELSE st.results,
             upstream |-> IF r.upstream THEN Append(st.upstream, symbol) ELSE st.upstream,
             failed |-> IF r.ret = "ok" THEN st.failed ELSE st.failed \cup {symbol}]

RECURSIVE ClosingLoop(_, _, _, _, _)
ClosingLoop(st, symbols, i, rs, t) ==
    IF i > Len(symbols) THEN st
    ELSE ClosingLoop(ClosingIteration(st, symbols[i], rs[symbols[i]], t),
                     symbols, i + 1, rs, t)

\* Returns the final loop state; rs gives the upstream's answer per symbol.
fetch_closing_prices(yc, last_fetch, memo, symbols, rs, t) ==
    ClosingLoop([yc |-> DayRollover(yc, last_fetch, DateOf(t)), memo |-> memo,
                 results |-> EmptyDict, upstream |-> <<>>,
                 failed |-> {}],
                symbols, 1, rs, t)

\* Ticker lists: ordered, without repetition (add_ticker refuses a symbol
\* that is already in the list).
TickerLists ==
    {<<>>} \cup {<<a>> : a \in Symbols}
           \cup {<<p[1], p[2]>> : p \in {q \in Symbols \X Symbols : q[1] # q[2]}}

\* A call of MarketMonitor.fetch_closing_prices.
FetchClosingPricesCall(symbols, rs) ==
    LET r == fetch_closing_prices(yesterdays_closes, last_close_fetch,
                                  closing_memo, symbols, rs, now) IN
    /\ yesterdays_closes' = r.yc
    /\ last_close_fetch' = DateOf(now)
    /\ closing_memo' = r.memo
    /\ ev' = [BaseEv("fetch_closing_prices") EXCEPT
                 !.syms = symbols, !.ret = "ok", !.results = r.results,
                 !.upstream = r.upstream, !.failed = r.failed,
                 !.last = last_close_fetch,
                 !.retry = (\E i \in 1..Len(symbols) : symbols[i] \in ev.failed)]
    /\ UNCHANGED <<now, announced_changes, daily_report_sent, last_report_date,
                   last_price_check, last_daily_report, price_cache, sched,
                   channels_file, tickers_file, tasks>>

-----------------------------------------------------------------------------
(* Initial state: MarketMonitor.__init__, empty module-level caches *)

NoTime == [day |-> NoDate, tod |-> 0]

\* scheduler = AsyncIOScheduler(): not running, no job registered; watchdog
\* tells whether the scheduler_watchdog task has been created.
NotStarted == [running |-> FALSE, jobs |-> EmptyDict, watchdog |-> FALSE]

\* Before on_ready: no monitor task (price_monitoring_task is None) and no
\* iteration of it started (iteration is the parity of their number), the
\* event loop free, no send_daily_report coroutine in flight, no report
\* delivered; monitors and watchdogs count the tasks created by on_ready that
\* have neither been cancelled nor ended; query is the query_deepseek call in
\* progress, if any.
NoQuery == [state |-> "idle", max_retries |-> 0, attempt |-> 0, posts |-> 0,
            inflight |-> 0, log |-> <<>>, result |-> <<>>]

NoTasks == [monitor |-> "none", iteration |-> 0, loop |-> "free",
            reports |-> EmptyDict, delivered |-> EmptyDict,
            monitors |-> 0, watchdogs |-> 0, query |-> NoQuery]

OpenTod == 9 * 3600 + 30 * 60

InitMonitor ==
    /\ announced_changes = EmptyDict
    /\ daily_report_sent = FALSE
    /\ last_report_date = NoDate
    /\ yesterdays_closes = EmptyDict
    /\ last_close_fetch = NoDate
    /\ last_price_check = NoTime
    /\ last_daily_report = NoTime

InitCaches ==
    /\ closing_memo = <<>>
    /\ price_cache = EmptyDict

InitRest ==
    /\ now = [day |-> 0, tod |-> OpenTod]
    /\ sched = NotStarted
    /\ channels_file = EmptyDict
    /\ tickers_file = EmptyDict
    /\ tasks = NoTasks
    /\ ev = BaseEv("init")

-----------------------------------------------------------------------------
(* Specification of the announcer alone: arbitrary calls and daily resets *)

InitAnnounce == InitMonitor /\ InitCaches /\ InitRest

AnnounceStep == \E g \in Guilds, s \in Symbols, p \in PctValues : ShouldAnnounceCall(g, s, p)

ResetStep == reset_daily_tracking /\ UNCHANGED sched

NextAnnounce == AnnounceStep \/ ResetStep

SpecAnnounce == InitAnnounce /\ [][NextAnnounce]_vars

\* The key and percentage of the call that has just been made.
CallKey == <<ev'.guild, ev'.syms[1]>>
IsCall == ev'.op = "should_announce_change"

\* C1: a call returns true exactly when it creates or overwrites the record of
\* its own (guild, symbol) key; a record is only overwritten by a value of
\* strictly greater absolute magnitude; the result depends on that key's
\* record alone, and the records of all other keys are left as they were.
C1_Step ==
    IsCall =>
        /\ (ev'.ret = "True") <=> (announced_changes' # announced_changes)
        /\ (ev'.ret = "True") =>
               /\ CallKey \in DOMAIN announced_changes'
               /\ announced_changes'[CallKey] = ev'.pct
               /\ CallKey \in DOMAIN announced_changes =>
                      Abs(ev'.pct) > Abs(announced_changes[CallKey])
        /\ (ev'.ret = "True") <=>
               /\ Abs(ev'.pct) >= BIG_CHANGE_THRESHOLD
               /\ \/ CallKey \notin DOMAIN announced_changes
                  \/ Abs(ev'.pct) > Abs(announced_changes[CallKey])
        /\ \A k \in Keys \ {CallKey} :
               /\ (k \in DOMAIN announced_changes') <=> (k \in DOMAIN announced_changes)
               /\ k \in DOMAIN announced_changes =>
                      announced_changes'[k] = announced_changes[k]

\* The claim's example, evaluated on the function itself: 3.0 is announced,
\* then 1.0 is not, then -4.0 is.
C1_Example ==
    LET a == should_announce_change(EmptyDict, 1, "AAPL", 300)
        b == should_announce_change(a.ac, 1, "AAPL", 100)
        c == should_announce_change(b.ac, 1, "AAPL", -400)
    IN  /\ a.ret /\ ~b.ret /\ c.ret
        /\ b.ac = a.ac
        /\ c.ac[<<1, "AAPL">>] = -400

C1_MonotoneMagnitude == [][C1_Step /\ C1_Example]_vars

\* C1 witness: -2.5 was on record for the key, the larger move 3.0 in the other
\* direction has just been announced over it, and the same symbol keeps a
\* different record in another guild.
C1_Witness ==
    /\ ev.op = "should_announce_change" /\ ev.ret = "True"
    /\ ev.had /\ ev.last = -250 /\ ev.pct = 300
    /\ \E g \in Guilds \ {ev.guild} :
           /\ <<g, ev.syms[1]>> \in DOMAIN announced_changes
           /\ announced_changes[<<g, ev.syms[1]>>] = 250

\* C2: a call with abs(pct) below the threshold returns false and leaves
\* announced_changes unchanged whatever it holds; with no record for the key,
\* every call with abs(pct) at or above the threshold returns true.
C2_Step ==
    IsCall =>
        /\ Abs(ev'.pct) < BIG_CHANGE_THRESHOLD =>
               ev'.ret = "False" /\ announced_changes' = announced_changes
        /\ (Abs(ev'.pct) >= BIG_CHANGE_THRESHOLD
               /\ CallKey \notin DOMAIN announced_changes) => ev'.ret = "True"

C2_ThresholdGate == [][C2_Step]_vars

\* C2 witness: a change of exactly the threshold was announced with no record,
\* and a later call below the threshold for that key has been refused.
C2_Witness ==
    /\ ev.op = "should_announce_change" /\ ev.ret = "False"
    /\ Abs(ev.pct) < BIG_CHANGE_THRESHOLD
    /\ ev.had /\ ev.last = BIG_CHANGE_THRESHOLD

\* C3: with a record v for the key, a call whose abs(pct) equals abs(v) returns
\* false and leaves the record equal to v, for either sign.
C3_Step ==
    (IsCall /\ CallKey \in DOMAIN announced_changes
            /\ Abs(ev'.pct) = Abs(announced_changes[CallKey])) =>
        /\ ev'.ret = "False"
        /\ CallKey \in DOMAIN announced_changes'
        /\ announced_changes'[CallKey] = announced_changes[CallKey]

\* The claim's example on the function itself: -3.0 announced, then +3.0 is not.
C3_Example ==
    LET a == should_announce_change(EmptyDict, 1, "AAPL", -300)
        b == should_announce_change(a.ac, 1, "AAPL", 300)
    IN  a.ret /\ ~b.ret /\ b.ac[<<1, "AAPL">>] = -300

C3_StrictTie == [][C3_Step /\ C3_Example]_vars

\* C3 witness: -2.5 is on record and +2.5 has just been refused.
C3_Witness ==
    /\ ev.op = "should_announce_change" /\ ev.ret = "False"
    /\ ev.had /\ ev.last = -250 /\ ev.pct = 250
    /\ announced_changes[<<ev.guild, ev.syms[1]>>] = -250

\* C4: right after reset_daily_tracking announced_changes is empty, and the
\* next call with abs(pct) at or above the threshold returns true for every key.
C4_AfterReset ==
    /\ ev.op = "reset_daily_tracking" => announced_changes = EmptyDict
    /\ (ev.op = "should_announce_change" /\ ev.after_reset
           /\ Abs(ev.pct) >= BIG_CHANGE_THRESHOLD) => ev.ret = "True"

\* C4 witness: the reset wiped a record of the same magnitude for this key, and
\* the call after the reset has announced it again.
C4_Witness ==
    /\ ev.op = "should_announce_change" /\ ev.after_reset /\ ev.ret = "True"
    /\ <<ev.guild, ev.syms[1]>> \in DOMAIN ev.cleared
    /\ ev.cleared[<<ev.guild, ev.syms[1]>>] = ev.pct

-----------------------------------------------------------------------------
(* The clock *)

\* Time passes: the clock moves to a later instant.
Tick(t) ==
    /\ Secs(t) > Secs(now)
    /\ now' = t
    /\ ev' = BaseEv("tick")
    /\ UNCHANGED <<announced_changes, daily_report_sent, last_report_date,
                   yesterdays_closes, last_close_fetch, last_price_check,
                   last_daily_report, closing_memo, price_cache, sched,
                   channels_file, tickers_file, tasks>>

-----------------------------------------------------------------------------
(* Specification of the live-price cache: fetch_current_price against a clock
   that visits both sides of the TTL boundary *)

\* Times of day the clock visits: an instant, the last second of the TTL
\* window that starts there, and the first second past that window.
LiveTods == {OpenTod, OpenTod + CACHE_TTL - 1, OpenTod + CACHE_TTL}

InitLive == InitMonitor /\ InitCaches /\ InitRest

LiveTick == \E d \in Days, tod \in LiveTods : Tick([day |-> d, tod |-> tod])
CurrentStep == \E s \in Symbols : \E resp \in Responses(now.day) : FetchCurrentPriceCall(s, resp)

NextLive == LiveTick \/ CurrentStep

SpecLive == InitLive /\ [][NextLive]_vars

\* The cache holds an entry for s that is younger than the 60 s TTL.
HasFreshEntry(s) ==
    /\ s \in DOMAIN price_cache
    /\ Secs(now) - Secs(price_cache[s].timestamp) < CACHE_TTL

\* C5: fetch_current_price(s) makes an upstream request exactly when the cache
\* holds no entry for s of age < 60 s; a call served without a request returns
\* the cached price of such an entry; a successful request stores the price
\* with the time of the call; the entries of other symbols are neither consulted
\* nor changed.
C5_Step ==
    ev'.op = "fetch_current_price" =>
        LET s == ev'.syms[1] IN
        /\ (ev'.upstream = <<s>>) <=> ~HasFreshEntry(s)
        /\ (ev'.upstream = <<>>) <=> HasFreshEntry(s)
        /\ HasFreshEntry(s) =>
               /\ ev'.ret = "ok" /\ ev'.price = price_cache[s].price
               /\ price_cache' = price_cache
        /\ (~HasFreshEntry(s) /\ ev'.ret = "ok") =>
               /\ s \in DOMAIN price_cache'
               /\ price_cache'[s] = [price |-> ev'.price, timestamp |-> now]
        /\ \A x \in Symbols \ {s} :
               /\ (x \in DOMAIN price_cache') <=> (x \in DOMAIN price_cache)
               /\ x \in DOMAIN price_cache => price_cache'[x] = price_cache[x]

C5_TtlCache == [][C5_Step]_vars

\* C5 witness: the entry of the symbol is exactly 60 s old and the call has gone
\* upstream, while the other symbol's entry is still fresh.
C5_Witness ==
    /\ ev.op = "fetch_current_price" /\ ev.had /\ ev.last = CACHE_TTL
    /\ ev.upstream = ev.syms /\ ev.ret = "ok"
    /\ \E x \in Symbols \ Range(ev.syms) : HasFreshEntry(x)

-----------------------------------------------------------------------------
(* Specification of the three caches together, against a clock that moves
   from day to day; the upstream reports one quote per day *)

\* The quote of day d: prices move from one day to the next.
DayQuote(d) == [kind |-> "quote", c |-> 15450 + 100 * d, pc |-> 15000 + 100 * d, t |-> d]

DayResponses(d) ==
    {DayQuote(d), NoPc(DayQuote(d).c, d)}
    \cup {Failure(k) : k \in {"error", "nodata", "neterr"}}

\* For a whole ticker list, whose loop treats every exception alike
\* (`except Exception`): the quote or an error answer.
ListResponses(d) ==
    {DayQuote(d), Failure("error")}

InitCache == InitMonitor /\ InitCaches /\ InitRest

DayTick == now.day + 1 \in Days /\ Tick([day |-> now.day + 1, tod |-> OpenTod])
DayCurrentStep ==
    \E s \in Symbols : \E resp \in DayResponses(now.day) : FetchCurrentPriceCall(s, resp)
ClosingStep ==
    \E s \in Symbols : \E resp \in DayResponses(now.day) : FetchClosingPriceCall(s, resp)
ClosingPricesStep ==
    \E syms \in TickerLists : \E rs \in [Range(syms) -> ListResponses(now.day)] :
        FetchClosingPricesCall(syms, rs)

NextCache == DayTick \/ DayCurrentStep \/ ClosingStep \/ ClosingPricesStep

SpecCache == InitCache /\ [][NextCache]_vars

\* The entries of the memo, whatever their order of use.
MemoSet(memo) == Range(memo)

\* yesterdays_closes once the daily clear at the head of fetch_closing_prices
\* has been applied.
AfterDailyClear ==
    IF last_close_fetch # DateOf(now) THEN EmptyDict ELSE yesterdays_closes

\* C6, live price: a failed fetch_current_price leaves every cache map as it was.
C6_Current ==
    (ev'.op = "fetch_current_price" /\ ev'.ret # "ok") =>
        /\ ev'.upstream = ev'.syms
        /\ price_cache' = price_cache
        /\ closing_memo' = closing_memo /\ yesterdays_closes' = yesterdays_closes

\* C6, memoised closing price: a failed fetch_closing_price leaves every cache
\* map as it was.
C6_Closing ==
    (ev'.op = "fetch_closing_price" /\ ev'.ret # "ok") =>
        /\ ev'.upstream = ev'.syms
        /\ closing_memo' = closing_memo
        /\ price_cache' = price_cache /\ yesterdays_closes' = yesterdays_closes

\* C6, previous-close dictionary: the failed fetches of a fetch_closing_prices
\* call write nothing.  After the call no failed symbol has an entry in the
\* dictionary, the memo or the result; the dictionary holds what it held after
\* the daily clear plus entries of symbols of the call that did not fail; the
\* memo holds what it held plus entries of such symbols.
C6_Closes ==
    ev'.op = "fetch_closing_prices" =>
        LET good == Range(ev'.syms) \ ev'.failed IN
        /\ ev'.failed \subseteq Range(ev'.upstream)
        /\ \A s \in ev'.failed :
               /\ s \notin DOMAIN yesterdays_closes'
               /\ s \notin DOMAIN ev'.results
               /\ MemoIndex(closing_memo', s) = 0
        /\ \A x \in DOMAIN AfterDailyClear :
               x \in DOMAIN yesterdays_closes' /\ yesterdays_closes'[x] = AfterDailyClear[x]
        /\ \A x \in (DOMAIN yesterdays_closes') \ (DOMAIN AfterDailyClear) : x \in good
        /\ MemoSet(closing_memo) \subseteq MemoSet(closing_memo')
        /\ \A e \in MemoSet(closing_memo') \ MemoSet(closing_memo) : e.sym \in good
        /\ price_cache' = price_cache

\* C6, retry: the call that follows a failed fetch of a symbol, with no time
\* passing in between, requests that symbol from upstream again.
C6_Retry ==
    /\ (ev.op = "fetch_current_price" /\ ev'.op = "fetch_current_price"
          /\ ev'.syms[1] \in ev.failed) => ev'.upstream = ev'.syms
    /\ (ev.op \in {"fetch_closing_price", "fetch_closing_prices"}
          /\ ev'.op \in {"fetch_closing_price", "fetch_closing_prices"}) =>
          \A s \in ev.failed \cap Range(ev'.syms) : s \in Range(ev'.upstream)

\* C6: a failed upstream fetch writes no cache entry in _price_cache,
\* yesterdays_closes or the memo of fetch_closing_price, and the next call for
\* the same symbol goes upstream again.
C6_FailureNotCached == [][C6_Current /\ C6_Closing /\ C6_Closes /\ C6_Retry]_vars

\* C6 witness: MSFT failed in the previous call and has failed again in this
\* fetch_closing_prices call, which went upstream for it, while AAPL was served.
C6_Witness ==
    /\ ev.op = "fetch_closing_prices" /\ ev.retry
    /\ ev.syms = <<"AAPL", "MSFT">> /\ ev.failed = {"MSFT"}
    /\ "MSFT" \in Range(ev.upstream)
    /\ "AAPL" \in DOMAIN ev.results
    /\ "AAPL" \in DOMAIN yesterdays_closes /\ "MSFT" \notin DOMAIN yesterdays_closes
    /\ "AAPL" \in DOMAIN price_cache

\* C7: the previous close is refreshed once per calendar day.  A closing price
\* handed out on a day, to the monitor loop by fetch_closing_prices or to the
\* report and the price command by fetch_closing_price, is the one the upstream
\* reports on that day (DayQuote differs from day to day, so the price tells
\* the day of the request it came from), never one obtained on an earlier day.
C7_DailyRefresh ==
    /\ ev.op = "fetch_closing_prices" =>
           \A s \in DOMAIN ev.results : ev.results[s] = DayQuote(DateOf(now)).pc
    /\ (ev.op = "fetch_closing_price" /\ ev.ret = "ok") =>
           ev.price = DayQuote(DateOf(now)).pc
-----------------------------------------------------------------------------
(* Guild configuration: config/channels.json, config/tickers.json and the
   channels that exist in the guilds *)

\* guild.get_channel returns None
NoChannel == 0

\* The id of the text channel that exists in guild g, and an id that
\* channels.json still holds after its channel was deleted.
LiveChannel(g) == 2 * g
GoneChannel(g) == 2 * g + 1

\* Mutant: every stored channel id resolves.
get_channel_Any(g, channel_id) == channel_id

\* guild.get_channel(channel_id)
get_channel(g, channel_id) ==
    IF channel_id = LiveChannel(g) THEN channel_id ELSE NoChannel

\* How a guild is configured: no report channel set, a channel id that no
\* longer resolves, a channel but no tickers, or channel and tickers.
GuildKinds == {"nochan", "badchan", "notick", "ok"}

\* The tickers a guild tracks when it tracks any.
GuildTickers(g) == IF g = 1 THEN <<"AAPL", "MSFT">> ELSE <<"MSFT">>

ChannelsOf(kinds) ==
    [g \in {x \in Guilds : kinds[x] # "nochan"} |->
        IF kinds[g] = "badchan" THEN GoneChannel(g) ELSE LiveChannel(g)]

TickersOf(kinds) ==
    [g \in {x \in Guilds : kinds[x] # "notick"} |-> GuildTickers(g)]

\* Whether reading a configuration file fails (json.load raises) in a job.
ConfigFailures == {"none", "channels", "tickers"}

\* load_channels(): [ret, data]
load_channels(file, cfgfail) ==
    IF cfgfail = "channels" THEN [ret |-> "JSONDecodeError", data |-> EmptyDict]
    ELSE [ret |-> "ok", data |-> file]

\* get_guild_tickers(guild_id): [ret, data]
get_guild_tickers(file, cfgfail, guild_id) ==
    IF cfgfail = "tickers" THEN [ret |-> "JSONDecodeError", data |-> <<>>]
    ELSE [ret |-> "ok", data |-> IF guild_id \in DOMAIN file THEN file[guild_id] ELSE <<>>]

\* `if not channel_id: continue`
HasChannelId(channels, g) == g \in DOMAIN channels /\ channels[g] # NoChannel

\* The guilds a job does work for.
Eligible(g) ==
    /\ HasChannelId(channels_file, g)
    /\ channels_file[g] = LiveChannel(g)
    /\ g \in DOMAIN tickers_file /\ tickers_file[g] # <<>>

InitConfig ==
    \E kinds \in [Guilds -> GuildKinds] :
        /\ channels_file = ChannelsOf(kinds)
        /\ tickers_file = TickersOf(kinds)

-----------------------------------------------------------------------------
(* monitor_price_changes: one iteration of the polling loop *)

CloseTod == 16 * 3600

\* now.weekday(), Monday = 0; day 0 of the model is a Thursday.
WeekdayOf(d) == (d + 3) % 7

\* Mutant: the market counts as open at any time.
is_market_open_Always(t) == TRUE

MARKET_OPEN_HOUR == 9
MARKET_OPEN_MINUTE == 30
MARKET_CLOSE_HOUR == 16

\* now.replace(hour=h, minute=m, second=0) on an instant [day, tod, us]: the
\* date and the microsecond stay.
ReplaceTime(t, h, m) == [t EXCEPT !.tod = h * 3600 + m * 60]

\* a <= b on instants of one timezone
TimeLeq(a, b) ==
    \/ a.day < b.day
    \/ a.day = b.day /\ a.tod < b.tod
    \/ a.day = b.day /\ a.tod = b.tod /\ a.us <= b.us

\* Mutant: the close bound is inclusive.
TimeLess_Inclusive(a, b) == TimeLeq(a, b)

\* a < b on instants of one timezone
TimeLess(a, b) ==
    \/ a.day < b.day
    \/ a.day = b.day /\ a.tod < b.tod
    \/ a.day = b.day /\ a.tod = b.tod /\ a.us < b.us

\* is_market_open() at the US/Eastern instant t = [day, tod, us]
MarketOpenAt(t) ==
    IF WeekdayOf(t.day) >= 5 THEN FALSE
    ELSE LET market_open_time == ReplaceTime(t, MARKET_OPEN_HOUR, MARKET_OPEN_MINUTE)
             market_close_time == ReplaceTime(t, MARKET_CLOSE_HOUR, 0)
         IN TimeLeq(market_open_time, t) /\ TimeLess(t, market_close_time)

\* is_market_open() called on a whole second
is_market_open(t) == MarketOpenAt([day |-> t.day, tod |-> t.tod, us |-> 0])

\* Mutant: the change is taken relative to the current price.
PctChange_OfCurrent(current_price, close_price) ==
    ((current_price - close_price) * 10000) \div current_price

\* ((current_price - close_price) / close_price) * 100, in hundredths of a
\* percent, truncated toward zero.
PctChange(current_price, close_price) ==
    LET num == (current_price - close_price) * 10000 IN
    IF num >= 0 THEN num \div close_price ELSE -((-num) \div close_price)

\* Mutant: an exception for one ticker ends the whole pass.
AfterTickerError_Abort(st, symbol) ==
    [st EXCEPT !.failed = @ \cup {symbol}, !.ret = "error"]

\* `except Exception as e: logger.error(...)` inside the ticker loop: the
\* ticker is given up, the loop goes on.
AfterTickerError(st, symbol) == [st EXCEPT !.failed = @ \cup {symbol}]

\* Mutant: a send that raises takes the record back.
AfterSendError_Rollback(before, after) == before

\* announced_changes once send_price_alert has raised: should_announce_change
\* wrote the record before the send and the `except Exception` branch only logs.
AfterSendError(before, after) == after

\* One iteration of `for symbol in tickers` of check_price_changes on the pass
\* state st; every exception is caught inside the iteration.  sendfail holds
\* the guilds whose channel.send raises.
CheckIteration(st, g, symbol, closing_prices, resp, sendfail, t) ==
    IF symbol \notin DOMAIN closing_prices THEN st
    ELSE LET r == fetch_current_price(st.cache, symbol, resp, t)
             st1 == [st EXCEPT !.cache = r.cache,
                               !.upstream = IF r.upstream THEN Append(@, symbol) ELSE @]
             close_price == closing_prices[symbol]
         IN IF r.ret # "ok" THEN AfterTickerError(st1, symbol)
            ELSE IF close_price = 0 THEN AfterTickerError(st1, symbol)
            ELSE LET a == should_announce_change(st.ac, g, symbol,
                                                 PctChange(r.price, close_price))
                 IN [st1 EXCEPT !.ac = IF a.ret /\ g \in sendfail
                                      THEN AfterSendError(st.ac, a.ac) ELSE a.ac,
                                !.checked = @ \cup {<<g, symbol>>},
                                !.sent = IF a.ret /\ g \notin sendfail
                                         THEN @ \cup {<<g, symbol>>} ELSE @,
                                !.senderr = IF a.ret /\ g \in sendfail
                                            THEN @ \cup {<<g, symbol>>} ELSE @]

RECURSIVE check_price_changes(_, _, _, _, _, _, _, _)
check_price_changes(st, g, tickers, i, closing_prices, rs, sendfail, t) ==
    IF i > Len(tickers) THEN st
    ELSE check_price_changes(
             CheckIteration(st, g, tickers[i], closing_prices, rs[tickers[i]],
                            sendfail, t),
             g, tickers, i + 1, closing_prices, rs, sendfail, t)

\* The body of `for guild in bot.guilds` for one guild.  An exception of
\* get_guild_tickers leaves the loop (st.ret), the later guilds are not reached.
MonitorGuild(st, g, channels, tickers, cfgfail, rsClose, rsCur, sendfail, t) ==
    IF st.ret # "ok" THEN st
    ELSE IF ~HasChannelId(channels, g) THEN st
    ELSE IF get_channel(g, channels[g]) = NoChannel THEN st
    ELSE LET gt == get_guild_tickers(tickers, cfgfail, g) IN
         IF gt.ret # "ok" THEN [st EXCEPT !.ret = gt.ret]
         ELSE IF gt.data = <<>> THEN st
         ELSE LET c == fetch_closing_prices(st.yc, st.last_fetch, st.memo,
                                            gt.data, rsClose, t)
                  st1 == [st EXCEPT !.yc = c.yc, !.last_fetch = DateOf(t),
                                    !.memo = c.memo,
                                    !.upstream = @ \o c.upstream,
                                    !.failed = @ \cup c.failed,
                                    !.visited = @ \cup {g}]
              IN check_price_changes(st1, g, gt.data, 1, c.results, rsCur, sendfail, t)

RECURSIVE MonitorGuilds(_, _, _, _, _, _, _, _, _)
MonitorGuilds(st, g, channels, tickers, cfgfail, rsClose, rsCur, sendfail, t) ==
    IF g > MaxGuild THEN st
    ELSE MonitorGuilds(MonitorGuild(st, g, channels, tickers, cfgfail, rsClose,
                                    rsCur, sendfail, t),
                       g + 1, channels, tickers, cfgfail, rsClose, rsCur, sendfail, t)

\* One iteration of `while True` in monitor_price_changes, up to the sleep.
MonitorPass(cfgfail, rsClose, rsCur, sendfail) ==
    LET st0 == [yc |-> yesterdays_closes, last_fetch |-> last_close_fetch,
                memo |-> closing_memo, cache |-> price_cache,
                ac |-> announced_changes, sent |-> {}, visited |-> {},
                upstream |-> <<>>, failed |-> {}, ret |-> "ok",
                checked |-> {}, senderr |-> {}]
        lc == load_channels(channels_file, cfgfail)
        pass == IF ~is_market_open(now) THEN [st0 EXCEPT !.ret = "closed"]
                ELSE IF lc.ret # "ok" THEN [st0 EXCEPT !.ret = lc.ret]
                ELSE MonitorGuilds(st0, 1, lc.data, tickers_file, cfgfail,
                                   rsClose, rsCur, sendfail, now)
    IN \E st \in {pass} :
    /\ last_price_check' = now
    /\ yesterdays_closes' = st.yc
    /\ last_close_fetch' = st.last_fetch
    /\ closing_memo' = st.memo
    /\ price_cache' = st.cache
    /\ announced_changes' = st.ac
    /\ ev' = [BaseEv("monitor_pass") EXCEPT
                 !.ret = st.ret, !.cfg = cfgfail, !.sent = st.sent,
                 !.visited = st.visited, !.upstream = st.upstream,
                 !.failed = st.failed, !.checked = st.checked,
                 !.senderr = st.senderr]
    /\ UNCHANGED <<now, daily_report_sent, last_report_date, last_daily_report,
                   sched, channels_file, tickers_file>>

-----------------------------------------------------------------------------
(* send_daily_report and fetch_market_data *)

\* One iteration of `for ticker in tickers` of fetch_market_data on
\* st = [memo, data, upstream, failed]; a failed ticker is left out.
MarketDataIteration(st, ticker, resp, t) ==
    LET r == fetch_closing_price(st.memo, ticker, resp, t) IN
    [memo |-> r.memo,
     data |-> IF r.ret = "ok" THEN DictSet(st.data, ticker, r.price) ELSE st.data,
     upstream |-> IF r.upstream THEN Append(st.upstream, ticker) ELSE st.upstream,
     failed |-> IF r.ret = "ok" THEN st.failed ELSE st.failed \cup {ticker}]

RECURSIVE MarketDataLoop(_, _, _, _, _)
MarketDataLoop(st, tickers, i, rs, t) ==
    IF i > Len(tickers) THEN st
    ELSE MarketDataLoop(MarketDataIteration(st, tickers[i], rs[tickers[i]], t),
                        tickers, i + 1, rs, t)

fetch_market_data(memo, tickers, rs, t) ==
    MarketDataLoop([memo |-> memo, data |-> EmptyDict, upstream |-> <<>>,
                    failed |-> {}], tickers, 1, rs, t)

\* Mutant: an exception in one guild ends the guild loop.
AfterGuildError_Abort(st, g) == [st EXCEPT !.errors = @ \cup {g}, !.ret = "error"]

\* `except Exception as e: logger.error("Error sending report to guild ...")`
\* inside the guild loop: the guild is given up, the loop goes on.
AfterGuildError(st, g) == [st EXCEPT !.errors = @ \cup {g}]

\* The body of `for guild in bot.guilds` of send_daily_report for one guild;
\* an exception is caught per guild (st.errors) and the loop goes on.
\* sendfail holds the guilds whose channel.send raises; st.content[g] is the
\* stocks_data the report of guild g was built from.
ReportGuild(st, g, channels, tickers, cfgfail, rs, sendfail, t) ==
    IF st.ret # "ok" THEN st
    ELSE IF ~HasChannelId(channels, g) THEN st
    ELSE IF get_channel(g, channels[g]) = NoChannel THEN st
    ELSE LET gt == get_guild_tickers(tickers, cfgfail, g) IN
         IF gt.ret # "ok" THEN AfterGuildError(st, g)
         ELSE IF gt.data = <<>> THEN st
         ELSE LET d == fetch_market_data(st.memo, gt.data, rs, t)
                  st1 == [st EXCEPT !.memo = d.memo,
                                    !.upstream = @ \o d.upstream,
                                    !.failed = @ \cup d.failed,
                                    !.visited = @ \cup {g}]
              IN IF d.data = EmptyDict THEN st1
                 ELSE IF g \in sendfail THEN AfterGuildError(st1, g)
                 ELSE [st1 EXCEPT !.sent = @ \cup {<<g, "report">>},
                                  !.content = DictSet(@, g, d.data)]

RECURSIVE ReportGuilds(_, _, _, _, _, _, _, _)
ReportGuilds(st, g, channels, tickers, cfgfail, rs, sendfail, t) ==
    IF g > MaxGuild THEN st
    ELSE ReportGuilds(ReportGuild(st, g, channels, tickers, cfgfail, rs, sendfail, t),
                      g + 1, channels, tickers, cfgfail, rs, sendfail, t)

\* Mutant: the date guard never suppresses an invocation.
AlreadyReported_Never(last_date, today) == FALSE

\* `if market_monitor.last_report_date == now.date(): return`
AlreadyReported(last_date, today) == last_date = today

\* Mutant: the date is marked only when some report was sent.
ReportDateAfterLoop_IfSent(last_date, today, sent) ==
    IF sent = {} THEN last_date ELSE today

\* `market_monitor.last_report_date = now.date()` after the guild loop
ReportDateAfterLoop(last_date, today, sent) == today

\* send_daily_report(): every variable but the scheduler's.
send_daily_report(cfgfail, rs, sendfail) ==
    LET today == DateOf(now)
        lc == load_channels(channels_file, cfgfail)
        st0 == [memo |-> closing_memo, sent |-> {}, visited |-> {},
                upstream |-> <<>>, failed |-> {}, errors |-> {},
                content |-> EmptyDict, ret |-> "ok"]
        loop == ReportGuilds(st0, 1, lc.data, tickers_file, cfgfail, rs,
                             sendfail, now)
        e == [BaseEv("send_daily_report") EXCEPT !.cfg = cfgfail,
                                                 !.last = last_report_date]
    IN \E st \in {loop} :
    IF AlreadyReported(last_report_date, today)
    THEN /\ ev' = [e EXCEPT !.ret = "already"]
         /\ UNCHANGED <<closing_memo, last_report_date, daily_report_sent,
                        last_daily_report>>
    ELSE IF lc.ret # "ok"
    THEN /\ ev' = [e EXCEPT !.ret = lc.ret]
         /\ last_daily_report' = now
         /\ UNCHANGED <<closing_memo, last_report_date, daily_report_sent>>
    ELSE /\ ev' = [e EXCEPT !.ret = "ok", !.sent = st.sent, !.visited = st.visited,
                            !.upstream = st.upstream, !.failed = st.failed,
                            !.errors = st.errors, !.content = st.content]
         /\ closing_memo' = st.memo
         /\ last_report_date' = ReportDateAfterLoop(last_report_date, today, st.sent)
         /\ daily_report_sent' = TRUE
         /\ last_daily_report' = now

SendDailyReportFrameNoTasks ==
    UNCHANGED <<now, announced_changes, yesterdays_closes, last_close_fetch,
                last_price_check, price_cache, channels_file, tickers_file>>

SendDailyReportFrame == SendDailyReportFrameNoTasks /\ UNCHANGED tasks

\* An invocation of the report job's function.
SendDailyReportCall(cfgfail, rs) ==
    send_daily_report(cfgfail, rs, {}) /\ SendDailyReportFrame /\ UNCHANGED sched

-----------------------------------------------------------------------------
(* Specification of the two jobs: polling passes and report invocations at
   the opening and at the close of each day, over every guild configuration *)

\* The upstream answers a job can get for a symbol on day d.
JobResponses(d) == {DayQuote(d), Failure("error")}

JobTods == {OpenTod, CloseTod}

InitJobs ==
    /\ InitMonitor /\ InitCaches /\ InitConfig
    /\ now = [day |-> 0, tod |-> OpenTod]
    /\ sched = NotStarted
    /\ tasks = NoTasks
    /\ ev = BaseEv("init")

JobsTick ==
    \E d \in Days, tod \in JobTods :
        /\ Secs([day |-> d, tod |-> tod]) <= Secs(now) + SecondsPerDay
        /\ Tick([day |-> d, tod |-> tod])

\* What a job meets: readable configuration and, per symbol, the answer of the
\* quote endpoint (one answer per symbol within the job, for the previous close
\* and for the current price alike), or a configuration file that cannot be
\* read, in which case no quote is requested.
JobInputs(d) ==
    {[cfgfail |-> "none", rs |-> rs] : rs \in [Symbols -> JobResponses(d)]}
    \cup {[cfgfail |-> c, rs |-> [s \in Symbols |-> DayQuote(d)]] :
              c \in ConfigFailures \ {"none"}}

MonitorStep ==
    \E in \in JobInputs(now.day) :
        MonitorPass(in.cfgfail, in.rs, in.rs, {}) /\ UNCHANGED tasks

\* The report function is invoked at the report time of a day, any number of
\* times.
ReportStep ==
    /\ now.tod = CloseTod
    /\ \E in \in JobInputs(now.day) : SendDailyReportCall(in.cfgfail, in.rs)

NextJobs == JobsTick \/ MonitorStep \/ ReportStep

SpecJobs == InitJobs /\ [][NextJobs]_vars

\* Specification of the report job alone: invocations of send_daily_report.
NextReport == JobsTick \/ ReportStep

SpecReport == InitJobs /\ [][NextReport]_vars

\* The guilds an invocation whose configuration loads sends a report to: the
\* eligible ones for which at least one ticker's price was obtained.
Reported(failed) ==
    {g \in Guilds : Eligible(g) /\ Range(tickers_file[g]) \ failed # {}}

\* C8, as stated: at a send_daily_report invocation that follows another one on
\* the same date (last_daily_report, set by every invocation that passes the
\* date guard, lies on today's date) no message is sent; an invocation on the
\* date after last_report_date is not suppressed.
C8_SecondSendsNone ==
    ev'.op = "send_daily_report" =>
        /\ (last_daily_report # NoTime /\ DateOf(last_daily_report) = DateOf(now))
               => ev'.sent = {}
        /\ (last_report_date # NoDate /\ last_report_date + 1 = DateOf(now))
               => ev'.ret # "already"

C8_MarkedDateStep ==
    ev'.op = "send_daily_report" =>
        /\ last_report_date = DateOf(now) =>
               /\ ev'.ret = "already" /\ ev'.sent = {} /\ ev'.upstream = <<>>
               /\ UNCHANGED <<last_report_date, daily_report_sent,
                              last_daily_report, closing_memo>>
        /\ (last_report_date # DateOf(now) /\ ev'.cfg = "channels") =>
               /\ ev'.ret \notin {"ok", "already"} /\ ev'.sent = {}
               /\ UNCHANGED <<last_report_date, daily_report_sent, closing_memo>>
               /\ last_daily_report' = now
        /\ (last_report_date # DateOf(now) /\ ev'.cfg # "channels") =>
               /\ ev'.ret = "ok"
               /\ last_report_date' = DateOf(now) /\ daily_report_sent'
               /\ last_daily_report' = now
               /\ ev'.cfg = "none" =>
                      ev'.sent = {<<g, "report">> : g \in Reported(ev'.failed)}
               /\ ev'.cfg = "tickers" => ev'.sent = {}

C10_SkipsUnconfigured ==
    ev.op \in {"monitor_pass", "send_daily_report"} =>
        /\ \A g \in Guilds : ~Eligible(g) =>
               /\ g \notin ev.visited
               /\ \A m \in ev.sent : m[1] # g
               /\ ev.cfg = "none" => g \notin ev.errors
        /\ Range(ev.upstream) \subseteq
               UNION {Range(tickers_file[g]) : g \in {x \in Guilds : Eligible(x)}}
        /\ ev.cfg = "none" =>
               /\ ev.ret \in {"ok", "closed", "already"}
               /\ ev.errors = {}
               /\ ev.ret = "ok" => \A g \in Guilds : Eligible(g) => g \in ev.visited

\* C10 witness: guild 1 has no report channel, the polling pass ended without
\* error and guild 2 was fetched for and alerted.
C10_Witness ==
    /\ ev.op = "monitor_pass" /\ ev.ret = "ok" /\ ev.cfg = "none"
    /\ ~HasChannelId(channels_file, 1)
    /\ 1 \in DOMAIN tickers_file
    /\ 2 \in ev.visited /\ \E m \in ev.sent : m[1] = 2

-----------------------------------------------------------------------------
(* The scheduler: on_ready, the two cron jobs, the watchdog *)

DAILY_REPORT_HOUR == 16
DAILY_REPORT_MINUTE == 0

\* The times of day of the two cron triggers.
ReportTod == DAILY_REPORT_HOUR * 3600 + DAILY_REPORT_MINUTE * 60
ResetTod == 0 * 3600 + 0 * 60

\* The first fire time of a daily trigger at or after instant t, and the first
\* one after t, in seconds.
CronNext(tod, t) ==
    IF t.tod <= tod THEN t.day * SecondsPerDay + tod
    ELSE (t.day + 1) * SecondsPerDay + tod

CronAfter(tod, t) ==
    IF t.tod < tod THEN t.day * SecondsPerDay + tod
    ELSE (t.day + 1) * SecondsPerDay + tod

\* Mutant: only the report job is registered.
RegisteredJobs_ReportOnly(t) ==
    [id \in {"daily_market_report"} |-> CronNext(ReportTod, t)]

\* The two add_job calls: both ids registered, next run computed from now.
RegisteredJobs(t) ==
    [id \in {"daily_market_report", "daily_reset"} |->
        IF id = "daily_market_report" THEN CronNext(ReportTod, t)
        ELSE CronNext(ResetTod, t)]

\* scheduler.shutdown(): stopped, the in-memory job store emptied.
shutdown(s) == [s EXCEPT !.running = FALSE, !.jobs = EmptyDict]

\* shutdown if running, add_job twice, start.
StartScheduler(s, t) ==
    LET s1 == IF s.running THEN shutdown(s) ELSE s IN
    [s1 EXCEPT !.running = TRUE, !.jobs = RegisteredJobs(t)]

SchedFrame ==
    UNCHANGED <<now, announced_changes, daily_report_sent, last_report_date,
                yesterdays_closes, last_close_fetch, last_price_check,
                last_daily_report, closing_memo, price_cache, channels_file,
                tickers_file>>

\* Mutant: the task held in the attribute is not cancelled.
Cancelled_Skip(n, live) == n

\* `if task and not task.done(): task.cancel()`: of the n tasks that are
\* neither cancelled nor ended, the one held in the attribute is cancelled.
Cancelled(n, live) == IF live THEN n - 1 ELSE n

\* on_ready: the scheduler is (re)initialised, the monitor task is created
\* (an existing one cancelled first) and the watchdog task is created (an
\* existing one cancelled first).
on_ready ==
    /\ sched' = [StartScheduler(sched, now) EXCEPT !.watchdog = TRUE]
    /\ tasks' = [tasks EXCEPT
                    !.monitor = "alive",
                    !.monitors = Cancelled(@, tasks.monitor = "alive") + 1,
                    !.watchdogs = Cancelled(@, sched.watchdog) + 1]
    /\ ev' = [BaseEv("on_ready") EXCEPT !.had = sched.running]
    /\ SchedFrame

\* MarketMonitor.restart_scheduler_if_needed
restart_scheduler_if_needed(s, t) ==
    IF ~s.running THEN StartScheduler(s, t) ELSE s

\* One wake-up of scheduler_watchdog.
scheduler_watchdog ==
    /\ sched.watchdog
    /\ sched' = restart_scheduler_if_needed(sched, now)
    /\ ev' = [BaseEv("scheduler_watchdog") EXCEPT !.had = sched.running, !.ret = "ok"]
    /\ SchedFrame /\ UNCHANGED tasks

\* Mutant: an exception of the restart ends the watchdog task.
AfterRestartError_Ends(s) == [s EXCEPT !.watchdog = FALSE]

\* `except Exception as e: logger.error("Failed to restart scheduler ...")` in
\* restart_scheduler_if_needed, and the same in the loop of
\* scheduler_watchdog: add_job or start() has raised, the scheduler is left
\* as it was found, not running; the watchdog loop goes on.
AfterRestartError(s) == s

\* A wake-up of scheduler_watchdog whose restart attempt fails.
WatchdogRestartFails ==
    /\ sched.watchdog /\ ~sched.running
    /\ sched' = AfterRestartError(sched)
    /\ ev' = [BaseEv("scheduler_watchdog") EXCEPT !.had = FALSE, !.ret = "error"]
    /\ SchedFrame /\ UNCHANGED tasks

\* The !restart command: refused unless the author is an administrator;
\* otherwise restart_scheduler_if_needed, whose attempt (made only when the
\* scheduler is not running) fails when fails is true.
restart_scheduler(administrator, fails) ==
    /\ sched' = IF ~administrator THEN sched
                ELSE IF fails /\ ~sched.running THEN AfterRestartError(sched)
                ELSE restart_scheduler_if_needed(sched, now)
    /\ ev' = [BaseEv("restart") EXCEPT
                 !.had = sched.running,
                 !.ret = IF ~administrator THEN "denied"
                         ELSE IF sched'.running THEN "ok" ELSE "failed"]
    /\ SchedFrame /\ UNCHANGED tasks

\* The scheduler stops running, the condition the watchdog looks for.
SchedulerStops ==
    /\ sched.running
    /\ sched' = shutdown(sched)
    /\ ev' = BaseEv("scheduler_stopped")
    /\ SchedFrame /\ UNCHANGED tasks

\* A registered job of a running scheduler has reached its run time.
Due(id) ==
    /\ sched.running
    /\ id \in DOMAIN sched.jobs
    /\ sched.jobs[id] <= Secs(now)

\* The scheduler runs the 'daily_market_report' job.
CronReport(cfgfail, rs) ==
    /\ Due("daily_market_report")
    /\ send_daily_report(cfgfail, rs, {})
    /\ SendDailyReportFrame
    /\ sched' = [sched EXCEPT !.jobs["daily_market_report"] = CronAfter(ReportTod, now)]

\* The scheduler runs the 'daily_reset' job.
CronReset ==
    /\ Due("daily_reset")
    /\ reset_daily_tracking
    /\ sched' = [sched EXCEPT !.jobs["daily_reset"] = CronAfter(ResetTod, now)]

-----------------------------------------------------------------------------
(* Specification of the scheduled bot: the clock visits midnight, the opening
   and the report time of each day; a running scheduler runs a job at its run
   time, before the clock moves on *)

SchedTods == {ResetTod, OpenTod, ReportTod}

InitSched == InitJobs

SchedTick ==
    \E d \in Days, tod \in SchedTods :
        LET t == [day |-> d, tod |-> tod] IN
        /\ sched.running => \A id \in DOMAIN sched.jobs : Secs(t) <= sched.jobs[id]
        /\ Tick(t)

CronReportStep ==
    \E in \in JobInputs(now.day) : CronReport(in.cfgfail, in.rs)

NextSched ==
    \/ SchedTick
    \/ on_ready
    \/ scheduler_watchdog
    \/ SchedulerStops
    \/ CronReportStep
    \/ CronReset

SpecSched == InitSched /\ [][NextSched]_vars

\* The reset job is registered with a running scheduler and its run time has
\* come: the reset is about to run.
ResetPending == Due("daily_reset")

\* C9: in every reachable state in which no reset is about to run,
\* daily_report_sent implies that last_report_date is the current date.
C9_SentOnlyToday ==
    (daily_report_sent /\ ~ResetPending) => last_report_date = DateOf(now)

-----------------------------------------------------------------------------
(* Specification of the polling pass alone: passes at the opening and at the
   close of each day, with per-symbol quotes, failing fetches, a previous
   close of 0 and failing sends *)

\* The quote of a symbol: AAPL closed at 150.00 and trades at 154.50, MSFT
\* closed at 300.00 and trades at 301.00.
PollQuote(s, d) ==
    IF s = "AAPL" THEN [kind |-> "quote", c |-> 15450, pc |-> 15000, t |-> d]
    ELSE [kind |-> "quote", c |-> 30100, pc |-> 30000, t |-> d]

\* The same quote with a previous close of 0.
ZeroClose(s, d) == [PollQuote(s, d) EXCEPT !.pc = 0]

\* What happens to a symbol in a pass: both requests are answered, the previous
\* close is 0, the previous-close request fails, the current-price request fails.
Fates == {"ok", "zero", "noclose", "nocurrent"}

CloseAnswer(s, fate, d) ==
    IF fate = "zero" THEN ZeroClose(s, d)
    ELSE IF fate = "noclose" THEN Failure("error")
    ELSE PollQuote(s, d)

CurrentAnswer(s, fate, d) ==
    IF fate = "nocurrent" THEN Failure("error") ELSE PollQuote(s, d)

AllOk == [s \in Symbols |-> "ok"]

\* What a pass meets: readable configuration with a fate per symbol, or all
\* requests answered and the sends to one guild failing, or a configuration
\* file that cannot be read.
PollInputs ==
    {[cfgfail |-> "none", fates |-> f, sendfail |-> {}] : f \in [Symbols -> Fates]}
    \cup {[cfgfail |-> "none", fates |-> AllOk, sendfail |-> {g}] : g \in Guilds}
    \cup {[cfgfail |-> c, fates |-> AllOk, sendfail |-> {}] :
              c \in ConfigFailures \ {"none"}}

PollPass(in) ==
    MonitorPass(in.cfgfail,
                [s \in Symbols |-> CloseAnswer(s, in.fates[s], now.day)],
                [s \in Symbols |-> CurrentAnswer(s, in.fates[s], now.day)],
                in.sendfail)

PollStep == \E in \in PollInputs : PollPass(in) /\ UNCHANGED tasks

NextPoll == JobsTick \/ PollStep

SpecPoll == InitJobs /\ [][NextPoll]_vars


\* The case of C11: the market is open, guild 1 alone is served (it has a live
\* channel and tracks AAPL and MSFT), nothing is on record, the configuration
\* is read, and the pass has got 150.00 / 300.00 as previous closes and
\* 154.50 / 301.00 as current prices, with no failing send.
C11_Case ==
    /\ ev'.op = "monitor_pass" /\ ev'.ret = "ok" /\ ev'.cfg = "none"
    /\ Eligible(1) /\ \A g \in Guilds \ {1} : ~Eligible(g)
    /\ tickers_file[1] = <<"AAPL", "MSFT">>
    /\ announced_changes = EmptyDict
    /\ ev'.failed = {} /\ ev'.senderr = {}
    /\ DOMAIN yesterdays_closes' = {"AAPL", "MSFT"}
    /\ yesterdays_closes'["AAPL"] = 15000 /\ yesterdays_closes'["MSFT"] = 30000
    /\ DOMAIN price_cache' = {"AAPL", "MSFT"}
    /\ price_cache'["AAPL"].price = 15450 /\ price_cache'["MSFT"].price = 30100

\* C11: in that case the pass sends exactly one alert, for AAPL in guild 1
\* (+3.00 %), none for MSFT (+0.33 %), and afterwards announced_changes holds
\* exactly the key (guild 1, AAPL), with the value 3.00.
C11_EndToEnd ==
    [][C11_Case =>
          /\ ev'.sent = {<<1, "AAPL">>}
          /\ DOMAIN announced_changes' = {<<1, "AAPL">>}
          /\ announced_changes'[<<1, "AAPL">>] = 300
          /\ ev'.checked = {<<1, "AAPL">>, <<1, "MSFT">>}]_vars

\* C11 witness: the pass of the example has run; guild 1 was alerted of AAPL
\* and the record holds +3.00 % for it and nothing else.
C11_Witness ==
    /\ ev.op = "monitor_pass" /\ ev.ret = "ok" /\ ev.cfg = "none"
    /\ Eligible(1) /\ \A g \in Guilds \ {1} : ~Eligible(g)
    /\ tickers_file[1] = <<"AAPL", "MSFT">>
    /\ ev.visited = {1} /\ ev.failed = {} /\ ev.senderr = {}
    /\ ev.upstream = <<"AAPL", "MSFT", "AAPL", "MSFT">>
    /\ ev.sent = {<<1, "AAPL">>}
    /\ ev.checked = {<<1, "AAPL">>, <<1, "MSFT">>}
    /\ DOMAIN announced_changes = {<<1, "AAPL">>}
    /\ announced_changes[<<1, "AAPL">>] = 300
    /\ yesterdays_closes["AAPL"] = 15000 /\ yesterdays_closes["MSFT"] = 30000
    /\ price_cache["AAPL"].price = 15450 /\ price_cache["MSFT"].price = 30100


\* Monday to Friday, from 09:30:00 up to but not including 16:00:00 (seconds
\* of the day), stated on the clock itself.
TradingTime(t) ==
    /\ WeekdayOf(t.day) \in 0..4
    /\ 34200 <= t.tod /\ t.tod < 57600

\* The (guild, ticker) pairs a pass has to work on.
Tracked == {p \in Guilds \X Symbols : Eligible(p[1]) /\ p[2] \in Range(tickers_file[p[1]])}

\* The record of key k is what it was before the step.
RecordKept(k) ==
    /\ (k \in DOMAIN announced_changes') = (k \in DOMAIN announced_changes)
    /\ k \in DOMAIN announced_changes => announced_changes'[k] = announced_changes[k]

\* C12, on one pass while the market is open and the configuration is read:
\* a ticker whose previous close or current price could not be had (or whose
\* previous close is 0) is not compared, not alerted and keeps its records;
\* the pass itself ends normally, has worked on every served guild and has
\* compared every other tracked ticker of every served guild.
C12_Step ==
    (ev'.op = "monitor_pass" /\ ev'.cfg = "none" /\ TradingTime(now)) =>
        /\ ev'.ret = "ok"
        /\ ev'.visited = {g \in Guilds : Eligible(g)}
        /\ \A g \in Guilds, s \in ev'.failed :
               /\ <<g, s>> \notin ev'.checked \cup ev'.sent \cup ev'.senderr
               /\ RecordKept(<<g, s>>)
        /\ ev'.checked = {p \in Tracked : p[2] \notin ev'.failed}

\* C12: the failure of one ticker in a pass of the monitor loop is contained
\* to that ticker; the remaining tickers and guilds are still processed.
C12_TickerFailureContained == [][C12_Step]_vars

\* C12 witness: a pass in which AAPL failed on the percentage (previous close
\* 0) in guild 1, after which MSFT was compared in guild 1 and in guild 2.
C12_Witness ==
    /\ ev.op = "monitor_pass" /\ ev.ret = "ok"
    /\ ev.failed = {"AAPL"}
    /\ "AAPL" \in DOMAIN yesterdays_closes /\ yesterdays_closes["AAPL"] = 0
    /\ "AAPL" \in DOMAIN price_cache
    /\ ev.visited = {1, 2}
    /\ ev.checked = {<<1, "MSFT">>, <<2, "MSFT">>}
    /\ \A g \in Guilds : <<g, "AAPL">> \notin DOMAIN announced_changes


\* C14, on one pass outside trading hours: the pass ends at the market check.
\* It reads no configuration (an unreadable file goes unnoticed), makes no
\* upstream request, compares no ticker, sends nothing and leaves
\* announced_changes, yesterdays_closes, last_close_fetch, both caches and the
\* report state as they were; last_price_check is set to the time of the pass.
C14_Step ==
    (ev'.op = "monitor_pass" /\ ~TradingTime(now)) =>
        /\ ev'.ret = "closed"
        /\ ev'.upstream = <<>> /\ ev'.visited = {} /\ ev'.failed = {}
        /\ ev'.checked = {} /\ ev'.sent = {} /\ ev'.senderr = {}
        /\ UNCHANGED <<announced_changes, yesterdays_closes, last_close_fetch,
                       closing_memo, price_cache, daily_report_sent,
                       last_report_date, last_daily_report>>
        /\ last_price_check' = now

\* C14: while is_market_open() is false an iteration of the monitor loop does
\* no work; only last_price_check is updated.
C14_ClosedMarketIdle == [][C14_Step]_vars

\* C14 witness: a pass at the close (16:00:00), with a served guild and a
\* channels file that cannot be read, has ended at the market check after a
\* pass during trading hours had filled the caches.
C14_Witness ==
    /\ ev.op = "monitor_pass" /\ ev.ret = "closed" /\ ev.cfg = "channels"
    /\ ~TradingTime(now) /\ now.tod = CloseTod
    /\ last_price_check = now
    /\ Eligible(1)
    /\ "AAPL" \in DOMAIN yesterdays_closes /\ "AAPL" \in DOMAIN price_cache
    /\ ev.upstream = <<>> /\ ev.sent = {}


-----------------------------------------------------------------------------
(* Specification of the market clock: is_market_open at instants of a week and
   more, to the microsecond *)

MaxClockDay == 6

ClockTods ==
    {0, 8 * 3600, OpenTod - 1, OpenTod, 10 * 3600, CloseTod - 1, CloseTod,
     17 * 3600, SecondsPerDay - 1}

ClockMicros == {0, 999999}

\* datetime.now(eastern)
ClockTimes ==
    {[day |-> d, tod |-> tod, us |-> us] :
        d \in 0..MaxClockDay, tod \in ClockTods, us \in ClockMicros}

InitClock ==
    /\ InitMonitor /\ InitCaches
    /\ now \in ClockTimes
    /\ sched = NotStarted
    /\ channels_file = EmptyDict /\ tickers_file = EmptyDict
    /\ tasks = NoTasks
    /\ ev = BaseEv("init")

ClockFrame ==
    UNCHANGED <<announced_changes, daily_report_sent, last_report_date,
                yesterdays_closes, last_close_fetch, last_price_check,
                last_daily_report, closing_memo, price_cache, sched,
                channels_file, tickers_file, tasks>>

\* The wall clock moves on.
ClockTick ==
    /\ \E t \in ClockTimes : TimeLess(now, t) /\ now' = t
    /\ ev' = BaseEv("tick")
    /\ ClockFrame

\* A call of is_market_open().
IsMarketOpenCall ==
    /\ ev' = [BaseEv("is_market_open") EXCEPT !.ret = BoolStr(MarketOpenAt(now))]
    /\ UNCHANGED now
    /\ ClockFrame

NextClock == ClockTick \/ IsMarketOpenCall

SpecClock == InitClock /\ [][NextClock]_vars

\* C15: is_market_open() returns true exactly when the day is Monday to Friday
\* and 09:30:00 <= time of day < 16:00:00 in US/Eastern; in particular it is
\* false at 08:00 and at 17:00 on a weekday and at any time on Saturday and
\* Sunday.  Nothing but the instant of the call enters the result.
C15_MarketHours ==
    ev.op = "is_market_open" =>
        /\ ev.ret = BoolStr(TradingTime(now))
        /\ now.tod \in {8 * 3600, 17 * 3600} => ev.ret = "False"
        /\ WeekdayOf(now.day) \in {5, 6} => ev.ret = "False"
        /\ (WeekdayOf(now.day) \in 0..4 /\ now.tod \in {34200, 36000, 57599})
               => ev.ret = "True"

\* C15 witness: is_market_open() has answered false on a Monday at
\* 16:00:00.000000, the first instant after trading.
C15_Witness ==
    /\ ev.op = "is_market_open" /\ ev.ret = "False"
    /\ WeekdayOf(now.day) = 0 /\ now.tod = 57600 /\ now.us = 0


-----------------------------------------------------------------------------
(* Specification of the background tasks: the monitor loop, the watchdog and
   the scheduler they look after, with the !restart command *)

\* Mutant: an exception that reaches the loop boundary ends the task.
AfterIteration_Ends(tk, ret) ==
    IF ret \in {"ok", "closed"} THEN [tk EXCEPT !.iteration = 1 - @]
    ELSE [tk EXCEPT !.monitor = "done"]

\* The end of an iteration of `while True`: normally, at the `continue` of a
\* closed market or in `except Exception` (ret names the exception), the task
\* sleeps PRICE_CHECK_INTERVAL and goes round again.
AfterIteration(tk, ret) == [tk EXCEPT !.iteration = 1 - @]

\* What the iterations of the loop meet: every answer right, one ticker
\* failing, a send failing, a configuration file unreadable.
LoopInputs ==
    {[cfgfail |-> "none", fates |-> AllOk, sendfail |-> {}],
     [cfgfail |-> "none", fates |-> [AllOk EXCEPT !["MSFT"] = "nocurrent"], sendfail |-> {}],
     [cfgfail |-> "none", fates |-> AllOk, sendfail |-> {1}],
     [cfgfail |-> "channels", fates |-> AllOk, sendfail |-> {}],
     [cfgfail |-> "tickers", fates |-> AllOk, sendfail |-> {}]}

\* The monitor task runs one iteration.
MonitorIteration ==
    /\ tasks.monitor = "alive"
    /\ \E in \in LoopInputs : PollPass(in)
    /\ tasks' = AfterIteration(tasks, ev'.ret)

RestartCommand ==
    \E administrator \in BOOLEAN, fails \in BOOLEAN :
        restart_scheduler(administrator, fails)

\* Each guild is either served (channel and tickers) or has no report channel.
InitTasks ==
    /\ InitMonitor /\ InitCaches
    /\ \E kinds \in [Guilds -> {"ok", "nochan"}] :
           /\ channels_file = ChannelsOf(kinds)
           /\ tickers_file = TickersOf(kinds)
    /\ now = [day |-> 0, tod |-> OpenTod]
    /\ sched = NotStarted
    /\ tasks = NoTasks
    /\ ev = BaseEv("init")

NextTasks ==
    \/ JobsTick
    \/ on_ready
    \/ MonitorIteration
    \/ scheduler_watchdog
    \/ WatchdogRestartFails
    \/ SchedulerStops
    \/ RestartCommand

\* The event loop resumes a task whose sleep is over, and, as C16 supposes,
\* a restart attempt that does not fail comes about.
SpecTasks ==
    /\ InitTasks /\ [][NextTasks]_vars
    /\ WF_vars(MonitorIteration)
    /\ WF_vars(scheduler_watchdog)

JobIds == {"daily_market_report", "daily_reset"}

\* C13, steps: no step ends the monitor task; a step of the scheduler, of the
\* watchdog or of the restart command, failing or not, leaves the monitor task
\* as it is; an iteration of the monitor, failing or not, leaves the scheduler
\* as it is.
C13_Step ==
    /\ tasks.monitor = "alive" => tasks'.monitor = "alive"
    /\ ev'.op \in {"scheduler_stopped", "scheduler_watchdog", "restart"} =>
           tasks' = tasks
    /\ ev'.op = "monitor_pass" => sched' = sched

\* C13: the monitor loop never terminates.  Once created the task stays alive
\* and after every iteration, whatever exception it met and whatever the state
\* of the scheduler, a further iteration starts; the scheduler is untouched by
\* the iterations.
C13_MonitorNeverStops ==
    /\ [][C13_Step]_vars
    /\ \A b \in {0, 1} :
           (tasks.monitor = "alive" /\ tasks.iteration = b) ~> (tasks.iteration # b)

\* C13 witness: with the scheduler stopped, an iteration that failed on the
\* channels file has been followed by one that failed on the tickers file,
\* and the task is alive.
C13_Witness ==
    /\ tasks.monitor = "alive" /\ tasks.iteration = 0
    /\ ev.op = "monitor_pass" /\ ev.ret = "JSONDecodeError" /\ ev.cfg = "tickers"
    /\ last_price_check = now
    /\ sched.watchdog /\ ~sched.running


\* Running with exactly the jobs 'daily_market_report' and 'daily_reset'.
RunningWithBothJobs(s) == s.running /\ DOMAIN s.jobs = JobIds

\* C16, wake-ups: a wake-up that finds the scheduler stopped and whose restart
\* does not fail leaves it running with exactly the two jobs, each due at its
\* next cron time; a wake-up that finds it running changes nothing; a failed
\* restart leaves the scheduler stopped and the watchdog alive; no step ends
\* the watchdog.
C16_Step ==
    /\ (ev'.op = "scheduler_watchdog" /\ ev'.ret = "ok" /\ ~sched.running) =>
           /\ RunningWithBothJobs(sched')
           /\ sched'.jobs["daily_market_report"] = CronNext(ReportTod, now)
           /\ sched'.jobs["daily_reset"] = CronNext(ResetTod, now)
    /\ (ev'.op = "scheduler_watchdog" /\ sched.running) => sched' = sched
    /\ (ev'.op = "scheduler_watchdog" /\ ev'.ret = "error") =>
           ~sched'.running /\ sched'.watchdog
    /\ sched.watchdog => sched'.watchdog

\* C16: when the scheduler has stopped after startup, the watchdog registers
\* both jobs again and starts it at a wake-up; if restart attempts do not go on
\* failing for ever, the scheduler is eventually running again with both
\* jobs, and a failed attempt does not end the watchdog.
C16_WatchdogRestarts ==
    /\ [][C16_Step]_vars
    /\ (sched.watchdog /\ ~sched.running) ~> RunningWithBothJobs(sched)

\* C16 witness: at the close of day 1 a wake-up has found the scheduler
\* stopped and restarted it; both jobs are registered, the report due now.
C16_Witness ==
    /\ ev.op = "scheduler_watchdog" /\ ev.ret = "ok" /\ ~ev.had
    /\ now = [day |-> 1, tod |-> CloseTod]
    /\ RunningWithBothJobs(sched) /\ sched.watchdog
    /\ sched.jobs["daily_market_report"] = Secs(now)
    /\ tasks.monitor = "alive"


\* C17 as stated: whatever state the scheduler is in, !restart by an
\* administrator ends with the scheduler running with exactly the two jobs.
C17_AlwaysRunningWithBoth ==
    [][(ev'.op = "restart" /\ ev'.ret # "denied") => RunningWithBothJobs(sched')]_vars

\* C17, one !restart: refused to a non-administrator, the scheduler untouched.
\* By an administrator: on a running scheduler it changes nothing; on a
\* stopped or never started one whose restart attempt does not fail it ends
\* running with exactly the two jobs, and in both cases a second application
\* at once gives the same state as the first; when the attempt fails the
\* scheduler stays stopped as it was.
C17_Step ==
    ev'.op = "restart" =>
        /\ ev'.ret = "denied" => sched' = sched
        /\ ev'.ret = "ok" =>
               /\ RunningWithBothJobs(sched')
               /\ sched.running => sched' = sched
               /\ restart_scheduler_if_needed(sched', now) = sched'
        /\ ev'.ret = "failed" => ~sched.running /\ sched' = sched
        /\ ev'.ret \in {"denied", "ok", "failed"}

\* C17 (amended): !restart by an administrator is idempotent, and from every
\* reachable state in which its restart attempt does not fail it ends running
\* with exactly the two jobs.
C17_RestartIdempotent == [][C17_Step]_vars

\* C17 witness: an administrator's !restart has found the scheduler stopped
\* after startup and has left it running with both jobs.
C17_Witness ==
    /\ ev.op = "restart" /\ ev.ret = "ok" /\ ~ev.had
    /\ sched.watchdog
    /\ RunningWithBothJobs(sched)
    /\ sched.jobs["daily_reset"] = CronNext(ResetTod, now)


-----------------------------------------------------------------------------
(* Specification of the daily report under failures: invocations of
   send_daily_report in which closing-price fetches and sends fail *)

\* What an invocation meets: per ticker a closing price or a failed fetch,
\* per guild a send that works or raises, or an unreadable configuration file.
DailyInputs ==
    {[cfgfail |-> "none", fates |-> f, sendfail |-> sf] :
        f \in [Symbols -> {"ok", "noclose"}], sf \in SUBSET Guilds}
    \cup {[cfgfail |-> c, fates |-> AllOk, sendfail |-> {}] :
            c \in ConfigFailures \ {"none"}}

DailyStep ==
    \E in \in DailyInputs :
        /\ send_daily_report(in.cfgfail,
                             [s \in Symbols |-> CloseAnswer(s, in.fates[s], now.day)],
                             in.sendfail)
        /\ SendDailyReportFrame /\ UNCHANGED sched

NextDaily == JobsTick \/ DailyStep

SpecDaily == InitJobs /\ [][NextDaily]_vars

\* C18, one invocation that got into its guild loop with readable files: the
\* data of every served guild was fetched; a served guild whose send did not
\* raise got a report built from exactly its tickers whose fetch did not
\* fail, provided there is one; a guild whose send raised, or all of whose
\* tickers failed, got none, and the guilds after it were served all the same.
C18_Step ==
    (ev'.op = "send_daily_report" /\ ev'.ret = "ok" /\ ev'.cfg = "none") =>
        /\ ev'.visited = {g \in Guilds : Eligible(g)}
        /\ ev'.errors \subseteq ev'.visited
        /\ \A g \in ev'.visited :
               LET got == Range(tickers_file[g]) \ ev'.failed IN
               /\ (g \notin ev'.errors /\ got # {}) =>
                      /\ <<g, "report">> \in ev'.sent
                      /\ DOMAIN ev'.content[g] = got
               /\ (g \in ev'.errors \/ got = {}) =>
                      /\ <<g, "report">> \notin ev'.sent
                      /\ g \notin DOMAIN ev'.content
               /\ g \in ev'.errors => got # {}

\* C18: in one invocation of send_daily_report a failed closing-price fetch
\* leaves out only its ticker, and a failure for one guild does not keep the
\* later guilds from getting their reports.
C18_ReportFailuresContained == [][C18_Step]_vars

\* C18 witness: AAPL could not be fetched and the send to guild 1 raised; the
\* invocation went on and guild 2 got its report, with MSFT.
C18_Witness ==
    /\ ev.op = "send_daily_report" /\ ev.ret = "ok"
    /\ ev.failed = {"AAPL"} /\ ev.errors = {1}
    /\ ev.visited = {1, 2}
    /\ ev.sent = {<<2, "report">>}
    /\ DOMAIN ev.content = {2} /\ DOMAIN ev.content[2] = {"MSFT"}
    /\ last_report_date = DateOf(now)


-----------------------------------------------------------------------------
(* Specification of the event loop: every task (the monitor loop, the
   watchdog, the scheduler's jobs, the command handlers) is a coroutine of one
   asyncio event loop and runs only when no other is running.
   fetch_closing_price and fetch_current_price call requests.get(url), with no
   timeout, from inside the coroutine: from the call until the upstream
   answers the thread of the event loop is inside requests.get *)

\* A coroutine is resumed by the event loop and runs action A.
Resume(A) == tasks.loop = "free" /\ A

\* An iteration started now makes a request: the market is open and for some
\* ticker of a served guild the previous close is neither in today's
\* yesterdays_closes nor in the memo, or the current price is not fresh in
\* _price_cache.
NeedsUpstream ==
    /\ is_market_open(now)
    /\ \E p \in Tracked :
           \/ /\ p[2] \notin DOMAIN DayRollover(yesterdays_closes, last_close_fetch,
                                                DateOf(now))
              /\ MemoIndex(closing_memo, p[2]) = 0
           \/ ~CacheHit(price_cache, p[2], now)

\* The monitor task has started an iteration that needs the upstream and
\* has called requests.get.
FetchCalled ==
    /\ tasks.loop = "free" /\ tasks.monitor = "alive"
    /\ NeedsUpstream
    /\ tasks' = [tasks EXCEPT !.loop = "blocked"]
    /\ ev' = BaseEv("requests.get")
    /\ UNCHANGED <<now, announced_changes, daily_report_sent, last_report_date,
                   yesterdays_closes, last_close_fetch, last_price_check,
                   last_daily_report, closing_memo, price_cache, sched,
                   channels_file, tickers_file>>

\* The upstream answers (here requests.get and the rest of the iteration's
\* requests return); the iteration runs to its sleep.
FetchReturns ==
    /\ tasks.loop = "blocked" /\ tasks.monitor = "alive"
    /\ \E in \in LoopInputs : PollPass(in)
    /\ ev'.upstream # <<>>
    /\ tasks' = [AfterIteration(tasks, ev'.ret) EXCEPT !.loop = "free"]

\* An iteration that makes no request: closed market, unreadable files,
\* nothing to fetch.
QuietIteration == Resume(MonitorIteration /\ ev'.upstream = <<>>)

WatchdogWakes == Resume(scheduler_watchdog \/ WatchdogRestartFails)

CommandHandled == Resume(RestartCommand)

BotReady == Resume(on_ready)

ResetJobRuns == Resume(CronReset)

\* Time passes; the scheduler runs a job at its run time.  An iteration is
\* taken at the instant of its call: the clock of the model stands while the
\* thread is inside requests.get.
LoopTick == Resume(SchedTick)

NextLoop ==
    \/ LoopTick
    \/ BotReady
    \/ FetchCalled
    \/ FetchReturns
    \/ QuietIteration
    \/ WatchdogWakes
    \/ CommandHandled
    \/ ResetJobRuns
    \/ SchedulerStops

SpecLoop == InitTasks /\ [][NextLoop]_vars

\* C19: a fetch that has not returned keeps nothing else from running.  While
\* requests.get is outstanding the watchdog can wake up, a command can be
\* handled and a job of the scheduler that is due can run.
C19_FetchDoesNotBlock ==
    tasks.loop = "blocked" =>
        /\ sched.watchdog => ENABLED WatchdogWakes
        /\ ENABLED CommandHandled
        /\ Due("daily_reset") => ENABLED ResetJobRuns


-----------------------------------------------------------------------------
(* Specification of send_daily_report at its suspension points.  The date
   guard is evaluated when an invocation starts, last_report_date is written
   when its guild loop has ended, and in between the coroutine is suspended
   in `await channel.send(embed=embed)` once per served guild, where the
   event loop runs the other tasks: the monitor loop, the reset job, another
   invocation of send_daily_report *)

\* How many invocations of send_daily_report may be in flight together.
MaxInvocations == 2

Slots == 1..MaxInvocations

\* The first guild from guild g on that gets a report (channel, tickers and,
\* the upstream answering, data); MaxGuild + 1 when there is none.
NextServed(g) ==
    IF \E x \in Guilds : x >= g /\ Eligible(x)
    THEN CHOOSE x \in Guilds :
             /\ x >= g /\ Eligible(x)
             /\ \A y \in Guilds : (y >= g /\ Eligible(y)) => x <= y
    ELSE MaxGuild + 1

\* One more message delivered under key k = <<guild, day>>.
Delivered(d, k) == DictSet(d, k, IF k \in DOMAIN d THEN d[k] + 1 ELSE 1)

\* The invocation in slot runs its guild loop from guild g on, up to its next
\* `await channel.send` (it stays in flight, suspended in the send to that
\* guild, the guild's data fetched) or to the end of the loop (it marks the
\* date it took at its start and is over).
ReportRuns(slot, today, g, tk) ==
    LET next == NextServed(g) IN
    IF next <= MaxGuild
    THEN /\ closing_memo' =
                fetch_market_data(closing_memo, tickers_file[next],
                                  [s \in Symbols |-> PollQuote(s, now.day)], now).memo
         /\ tasks' = [tk EXCEPT !.reports = DictSet(@, slot, [today |-> today, g |-> next])]
         /\ ev' = [BaseEv("send_daily_report") EXCEPT !.ret = "sending", !.guild = next]
         /\ UNCHANGED <<last_report_date, daily_report_sent, last_daily_report>>
    ELSE /\ last_report_date' = today
         /\ daily_report_sent' = TRUE
         /\ last_daily_report' = now
         /\ tasks' = [tk EXCEPT !.reports = [x \in (DOMAIN @) \ {slot} |-> @[x]]]
         /\ ev' = [BaseEv("send_daily_report") EXCEPT !.ret = "ok"]
         /\ UNCHANGED closing_memo

\* The report job's function is invoked: the guard, and if it lets the
\* invocation through, the loop up to the first send.
ReportBegins ==
    /\ now.tod = ReportTod
    /\ \E slot \in Slots :
          /\ slot \notin DOMAIN tasks.reports
          /\ \A x \in Slots : x < slot => x \in DOMAIN tasks.reports
          /\ IF AlreadyReported(last_report_date, DateOf(now))
             THEN /\ ev' = [BaseEv("send_daily_report") EXCEPT !.ret = "already"]
                  /\ UNCHANGED <<closing_memo, tasks, last_report_date,
                                 daily_report_sent, last_daily_report>>
             ELSE ReportRuns(slot, DateOf(now), 1, tasks)
    /\ SendDailyReportFrameNoTasks /\ UNCHANGED sched

\* A suspended invocation's channel.send returns, the message delivered; the
\* invocation runs on.
SendCompletes ==
    /\ \E slot \in DOMAIN tasks.reports :
          LET inv == tasks.reports[slot] IN
          ReportRuns(slot, inv.today, inv.g + 1,
                     [tasks EXCEPT !.delivered = Delivered(@, <<inv.g, DateOf(now)>>)])
    /\ SendDailyReportFrameNoTasks /\ UNCHANGED sched

\* The 'daily_reset' job runs, at midnight.
MidnightReset == now.tod = ResetTod /\ ResetStep

OverlapTick ==
    \E d \in Days, tod \in SchedTods :
        /\ Secs([day |-> d, tod |-> tod]) <= Secs(now) + SecondsPerDay
        /\ Tick([day |-> d, tod |-> tod])

NextOverlap ==
    \/ OverlapTick
    \/ ReportBegins
    \/ SendCompletes
    \/ MonitorStep
    \/ MidnightReset

SpecOverlap == InitJobs /\ [][NextOverlap]_vars

\* C20: whatever the interleaving of the invocations of the report job with
\* one another and with the other tasks, a guild gets at most one daily report
\* message on a calendar day.
C20_AtMostOneReportPerDay ==
    \A k \in DOMAIN tasks.delivered : tasks.delivered[k] <= 1

-----------------------------------------------------------------------------
(* The error contract of the two fetch functions *)

\* The call made an HTTP request and .json() gave a document of shape k.
GotShape(k) ==
    /\ ev.op \in {"fetch_current_price", "fetch_closing_price"}
    /\ ev.content = <<k>>

\* C21: fetch_current_price and fetch_closing_price return a pair or raise
\* MarketDataException.  A response with an "error" field, one without "c" or
\* "t", and, for fetch_closing_price, one without "pc" make the call raise
\* MarketDataException; whatever document the upstream sends, the call ends
\* with a returned pair or that exception and with no other error.
C21_MarketDataExceptionOnly ==
    /\ (GotShape("error") \/ GotShape("nodata")) => ev.ret = "MarketDataException"
    /\ (GotShape("nopc") /\ ev.op = "fetch_closing_price") => ev.ret = "MarketDataException"
    /\ (\E k \in {"quote", "error", "nodata", "nopc"} : GotShape(k)) =>
           ev.ret \in {"ok", "MarketDataException"}

-----------------------------------------------------------------------------
(* The addticker command (src/bot/commands/tickers.py) and the allow-list
   VALID_TICKERS of src/bot/commands/ai.py *)

\* The symbols of data/tickers.csv as load_valid_tickers returns them: plain
\* ones, one with a '.'+letter suffix and one with a numeric suffix.
VALID_TICKERS == {"AAPL", "MSFT", "BRK.B", "AB1"}

\* How the sample strings are spelled, character by character.
Spelling ==
    ("AAPL" :> <<"A", "A", "P", "L">>) @@ ("aapl" :> <<"a", "a", "p", "l">>) @@
    ("MSFT" :> <<"M", "S", "F", "T">>) @@
    ("BRK.B" :> <<"B", "R", "K", ".", "B">>) @@ ("AB1" :> <<"A", "B", "1">>) @@
    ("ZZZZ" :> <<"Z", "Z", "Z", "Z">>) @@
    ("GOOGLE" :> <<"G", "O", "O", "G", "L", "E">>)

LowerCase == ("a" :> "A") @@ ("p" :> "P") @@ ("l" :> "L")
UpperLetters == {"A", "B", "E", "F", "G", "K", "L", "M", "O", "P", "R", "S", "T", "Z"}

\* The string with the given spelling.
Named(chars) == CHOOSE n \in DOMAIN Spelling : Spelling[n] = chars

\* str.upper()
str_upper(x) ==
    Named([i \in 1..Len(Spelling[x]) |->
              IF Spelling[x][i] \in DOMAIN LowerCase
              THEN LowerCase[Spelling[x][i]] ELSE Spelling[x][i]])

\* str.isalpha(): non-empty and letters only
str_isalpha(x) ==
    /\ Len(Spelling[x]) > 0
    /\ \A i \in 1..Len(Spelling[x]) :
           Spelling[x][i] \in UpperLetters \cup DOMAIN LowerCase

\* `if not symbol.isalpha() or len(symbol) > 5`
BadFormat(symbol) == ~str_isalpha(symbol) \/ Len(Spelling[symbol]) > 5

\* What an administrator or another member types after !addticker.
TickerArguments == {"aapl", "BRK.B", "AB1", "ZZZZ", "GOOGLE"}

\* What the quote endpoint answers to the validating request: a quote, a
\* quote with price 0 (Finnhub's answer for a symbol it does not know), an
\* error document.
EntryResponses(d) ==
    {[kind |-> "quote", c |-> 15450, pc |-> 15000, t |-> d],
     [kind |-> "quote", c |-> 0, pc |-> 0, t |-> d],
     Failure("error")}

\* The !addticker command: [ret, cache, tickers, upstream] from the format
\* check, the validating fetch_current_price and the append to the guild's list.
add_ticker(file, cache, guild_id, raw, resp, t) ==
    LET symbol == str_upper(raw)
        r == fetch_current_price(cache, symbol, resp, t)
        current_tickers == get_guild_tickers(file, "none", guild_id).data
    IN  IF BadFormat(symbol)
        THEN [ret |-> "invalid", cache |-> cache, tickers |-> file, upstream |-> FALSE]
        ELSE IF r.ret # "ok" \/ r.price <= 0
        THEN [ret |-> "unvalidated", cache |-> r.cache, tickers |-> file,
              upstream |-> r.upstream]
        ELSE IF symbol \in Range(current_tickers)
        THEN [ret |-> "already", cache |-> r.cache, tickers |-> file,
              upstream |-> r.upstream]
        ELSE [ret |-> "added", cache |-> r.cache,
              tickers |-> DictSet(file, guild_id, Append(current_tickers, symbol)),
              upstream |-> r.upstream]

\* A member sends !addticker; has_permissions(administrator=True) refuses
\* everyone but administrators before the body runs.
AddTickerCommand ==
    \E g \in Guilds, administrator \in BOOLEAN, raw \in TickerArguments :
    \E resp \in EntryResponses(now.day) :
        \E r \in {IF administrator
                  THEN add_ticker(tickers_file, price_cache, g, raw, resp, now)
                  ELSE [ret |-> "MissingPermissions", cache |-> price_cache,
                        tickers |-> tickers_file, upstream |-> FALSE]} :
            /\ price_cache' = r.cache
            /\ tickers_file' = r.tickers
            /\ ev' = [BaseEv("add_ticker") EXCEPT
                         !.guild = g, !.syms = <<str_upper(raw)>>, !.content = <<raw>>,
                         !.ret = r.ret, !.had = administrator,
                         !.upstream = IF r.upstream THEN <<str_upper(raw)>> ELSE <<>>]
            /\ UNCHANGED <<now, announced_changes, daily_report_sent, last_report_date,
                           yesterdays_closes, last_close_fetch, last_price_check,
                           last_daily_report, closing_memo, sched, channels_file, tasks>>

EntryTick == Tick([day |-> now.day, tod |-> now.tod + CACHE_TTL]) /\ now.tod = OpenTod

NextEntry == EntryTick \/ AddTickerCommand

SpecEntry == InitTasks /\ [][NextEntry]_vars

\* C22: membership in a guild's ticker list is enforced by the allow-list when
\* a ticker is added.  An addticker request for a symbol outside the allow-list
\* makes no network call and leaves the ticker lists unchanged, and no symbol of
\* the allow-list is turned away by the entry validation of the format.
C22_Step ==
    (ev'.op = "add_ticker" /\ ev'.had) =>
        /\ ev'.syms[1] \notin VALID_TICKERS =>
               /\ ev'.upstream = <<>>
               /\ tickers_file' = tickers_file
        /\ ev'.syms[1] \in VALID_TICKERS => ev'.ret # "invalid"

C22_AllowListAtEntry == [][C22_Step]_vars

-----------------------------------------------------------------------------
(* News: fetch_news and fetch_general_market_news (src/api/news_data.py) *)

\* The longest list the news endpoint returns here.
MaxNews == 16

\* `data[:5]` and `data[:15]`
NEWS_LIMIT == 5
GENERAL_NEWS_LIMIT == 15

\* Mutant: the list is returned whole.
Slice_Whole(data, n) == data

\* `data[:n]` on a list
Slice(data, n) == [i \in 1..(IF Len(data) < n THEN Len(data) ELSE n) |-> data[i]]

\* The lists the endpoint may answer with: items are told apart by their id,
\* in ascending or descending order.
NewsLists ==
    {[i \in 1..n |-> start + step * i] : n \in 0..MaxNews, start \in {20, 40}, step \in {-1, 1}}

\* The answer to a news request: a JSON list, or requests.get raising, or a
\* status that makes raise_for_status() raise.
NewsResponses ==
    {[kind |-> "list", data |-> l] : l \in NewsLists}
    \cup {[kind |-> k, data |-> <<>>] : k \in {"neterr", "httperr"}}

\* Returns [ret, data].
NewsResult(resp, limit) ==
    IF resp.kind = "neterr" THEN [ret |-> "RequestException", data |-> <<>>]
    ELSE IF resp.kind = "httperr" THEN [ret |-> "HTTPError", data |-> <<>>]
    ELSE [ret |-> "ok", data |-> Slice(resp.data, limit)]

fetch_news(symbol, resp) == NewsResult(resp, NEWS_LIMIT)

fetch_general_market_news(resp) == NewsResult(resp, GENERAL_NEWS_LIMIT)

NewsFrame ==
    UNCHANGED <<now, announced_changes, daily_report_sent, last_report_date,
                yesterdays_closes, last_close_fetch, last_price_check,
                last_daily_report, closing_memo, price_cache, sched,
                channels_file, tickers_file, tasks>>

FetchNewsCall ==
    \E symbol \in Symbols, resp \in NewsResponses :
        /\ ev' = [BaseEv("fetch_news") EXCEPT
                     !.syms = <<symbol>>, !.cfg = resp.kind, !.results = resp.data,
                     !.ret = fetch_news(symbol, resp).ret,
                     !.content = fetch_news(symbol, resp).data]
        /\ NewsFrame

FetchGeneralNewsCall ==
    \E resp \in NewsResponses :
        /\ ev' = [BaseEv("fetch_general_market_news") EXCEPT
                     !.cfg = resp.kind, !.results = resp.data,
                     !.ret = fetch_general_market_news(resp).ret,
                     !.content = fetch_general_market_news(resp).data]
        /\ NewsFrame

NextNews == FetchNewsCall \/ FetchGeneralNewsCall

SpecNews == InitAnnounce /\ [][NextNews]_vars

\* The first min(limit, n) items of the upstream list, in upstream order.
FirstItems(limit) ==
    /\ Len(ev.content) = (IF Len(ev.results) < limit THEN Len(ev.results) ELSE limit)
    /\ \A i \in 1..Len(ev.content) : ev.content[i] = ev.results[i]

\* C23: fetch_news returns the first min(5, n) items of the n-item upstream
\* list and fetch_general_market_news the first min(15, n), in upstream order;
\* an error raised by the HTTP request reaches the caller as that error and is
\* not turned into a returned list.
C23_NewsTruncation ==
    /\ (ev.op = "fetch_news" /\ ev.cfg = "list") =>
           ev.ret = "ok" /\ FirstItems(5)
    /\ (ev.op = "fetch_general_market_news" /\ ev.cfg = "list") =>
           ev.ret = "ok" /\ FirstItems(15)
    /\ (ev.op \in {"fetch_news", "fetch_general_market_news"} /\ ev.cfg # "list") =>
           ev.ret \in {"RequestException", "HTTPError"}

\* C23 witness: 16 items came in for the general news and 15 went out, the
\* first of them the upstream's first.
C23_Witness ==
    /\ ev.op = "fetch_general_market_news" /\ ev.ret = "ok"
    /\ Len(ev.results) = 16 /\ Len(ev.content) = 15
    /\ ev.content[1] = ev.results[1] /\ ev.content[15] = ev.results[15]

-----------------------------------------------------------------------------
(* Specification of the daily reset in the running bot: the polling loop, the
   two cron jobs of a running scheduler, a scheduler that may stop and be
   restarted by the watchdog or by !restart, over a clock that crosses
   midnight *)

NextReset ==
    \/ SchedTick
    \/ on_ready
    \/ MonitorIteration
    \/ scheduler_watchdog
    \/ WatchdogRestartFails
    \/ SchedulerStops
    \/ RestartCommand
    \/ CronReportStep
    \/ CronReset

SpecReset == InitTasks /\ [][NextReset]_vars

\* No closing price has been fetched on the current date: no polling pass of
\* today has come as far as its tickers, so none has written a record today.
NoPassYetToday == last_close_fetch # DateOf(now)

\* C24: announcement records live only for the rest of the trading day.  When
\* the first polling pass of a day's trading starts, announced_changes holds no
\* record (any it held would have been written on an earlier day), whatever
\* the scheduler has done in between, provided it is running again by then.
C24_Step ==
    (ev'.op = "monitor_pass" /\ ev'.ret # "closed" /\ NoPassYetToday /\ sched.running) =>
        announced_changes = EmptyDict

C24_RecordsEndWithTheDay == [][C24_Step]_vars

\* The previous-close cache (dictionary and memo) and the live-price cache
\* are the same before and after the step.
CachesUnchanged ==
    /\ yesterdays_closes' = yesterdays_closes /\ last_close_fetch' = last_close_fetch
    /\ closing_memo' = closing_memo
    /\ price_cache' = price_cache

\* C25, as stated: a run of reset_daily_tracking leaves ReportState
\* (daily_report_sent, last_report_date) unchanged.
C25_ReportStateUntouched ==
    [][ev'.op = "reset_daily_tracking" =>
          /\ daily_report_sent' = daily_report_sent
          /\ last_report_date' = last_report_date]_vars

\* C25: a run of the reset job empties announced_changes and sets
\* daily_report_sent to false; it leaves last_report_date, the previous-close
\* cache, the live-price cache, the registered jobs and the report job's next
\* run time unchanged, and the scheduler running.
C25_Step ==
    ev'.op = "reset_daily_tracking" =>
        /\ announced_changes' = EmptyDict
        /\ daily_report_sent' = FALSE
        /\ last_report_date' = last_report_date
        /\ last_daily_report' = last_daily_report
        /\ CachesUnchanged
        /\ sched'.running = sched.running
        /\ DOMAIN sched'.jobs = DOMAIN sched.jobs
        /\ sched'.jobs["daily_market_report"] = sched.jobs["daily_market_report"]

C25_ResetIndependentOfReport == [][C25_Step]_vars

\* C25 witness: the reset has just run at midnight after a day on which a
\* report was sent and alerts were recorded, with all three caches filled.
C25_Witness ==
    /\ ev.op = "reset_daily_tracking" /\ ev.cleared # EmptyDict
    /\ last_report_date = DateOf(now) - 1 /\ ~daily_report_sent
    /\ yesterdays_closes # EmptyDict /\ closing_memo # <<>> /\ price_cache # EmptyDict
    /\ announced_changes = EmptyDict
    /\ sched.running

-----------------------------------------------------------------------------
(* When the report state is marked *)

\* C26, one invocation: one that finds today's date marked sends nothing; one
\* that gets through its guild loop marks last_report_date = today and
\* daily_report_sent = true whatever was sent; one whose channel configuration
\* cannot be loaded leaves both as they were.
C26_Step ==
    ev'.op = "send_daily_report" =>
        /\ last_report_date = DateOf(now) =>
               /\ ev'.ret = "already" /\ ev'.sent = {}
               /\ last_report_date' = last_report_date
               /\ daily_report_sent' = daily_report_sent
        /\ (last_report_date # DateOf(now) /\ ev'.cfg # "channels") =>
               /\ ev'.ret = "ok"
               /\ last_report_date' = DateOf(now) /\ daily_report_sent' = TRUE
        /\ (last_report_date # DateOf(now) /\ ev'.cfg = "channels") =>
               /\ ev'.ret \notin {"ok", "already"} /\ ev'.sent = {}
               /\ last_report_date' = last_report_date
               /\ daily_report_sent' = daily_report_sent

-----------------------------------------------------------------------------
(* Specification of alerts whose send fails: polling passes in which AAPL
   stands at +3 %, -3 % or +4 % and the sends to any set of guilds raise,
   with the daily reset in between *)

\* AAPL closed at 150.00 and trades at c; MSFT as in PollQuote.
AlertLevels == {15450, 14550, 15600}

AlertQuote(s, c, d) ==
    IF s = "AAPL" THEN [PollQuote(s, d) EXCEPT !.c = c] ELSE PollQuote(s, d)

AlertStep ==
    \E c \in AlertLevels, sendfail \in SUBSET Guilds :
        /\ MonitorPass("none", [s \in Symbols |-> AlertQuote(s, c, now.day)],
                       [s \in Symbols |-> AlertQuote(s, c, now.day)], sendfail)
        /\ UNCHANGED tasks

NextAlert == JobsTick \/ AlertStep \/ ResetStep

SpecAlert == InitTasks /\ [][NextAlert]_vars

\* The alerts a pass tried to send: delivered or not.
Attempted(e) == e.sent \cup e.senderr

\* C27, within the pass: a key whose send raised is not sent again in the
\* pass, its record holds the change that was to be announced, and the pass
\* went on: every ticker of every served guild was checked.
C27_SamePass ==
    ev'.op = "monitor_pass" =>
        /\ ev'.sent \cap ev'.senderr = {}
        /\ \A k \in ev'.senderr :
               /\ k \in DOMAIN announced_changes'
               /\ Abs(announced_changes'[k]) >= BIG_CHANGE_THRESHOLD
               /\ k \in DOMAIN announced_changes =>
                      Abs(announced_changes'[k]) > Abs(announced_changes[k])
        /\ ev'.ret = "ok" =>
               \A g \in Guilds : Eligible(g) =>
                   \A i \in 1..Len(tickers_file[g]) :
                       <<g, tickers_file[g][i]>> \in ev'.checked

\* C27, later passes: while a record stands (no reset since), an alert for its
\* key is attempted only for a change of strictly greater magnitude, whether
\* the alert that wrote the record was delivered or not: the alert whose send
\* failed is not sent by a later pass that sees the same change.
C27_LaterPass ==
    ev'.op = "monitor_pass" =>
        \A k \in Attempted(ev') \cap DOMAIN announced_changes :
            Abs(announced_changes'[k]) > Abs(announced_changes[k])

\* C27: a failed alert send is non-fatal and is not retried: the pass goes on,
\* the record written before the send stays, and later passes of the day alert
\* for that key only on a strictly greater change.
C27_FailedSendNotRetried == [][C27_SamePass /\ C27_LaterPass]_vars

\* C27 witness: the send of the AAPL alert to guild 1 raised; the pass went on
\* to MSFT and to guild 2, and the record for (guild 1, AAPL) stands.
C27_Witness ==
    /\ ev.op = "monitor_pass" /\ ev.ret = "ok"
    /\ <<1, "AAPL">> \in ev.senderr /\ <<1, "AAPL">> \notin ev.sent
    /\ <<1, "MSFT">> \in ev.checked
    /\ 2 \in ev.visited /\ <<2, "MSFT">> \in ev.checked
    /\ announced_changes[<<1, "AAPL">>] = 300

-----------------------------------------------------------------------------
(* on_ready delivered more than once *)

\* C28: after any number of on_ready events at most one monitor task and at
\* most one watchdog task exist that have not been cancelled; each on_ready
\* leaves exactly one of either, the scheduler running and the job registry
\* holding exactly 'daily_market_report' and 'daily_reset', each once, due at
\* its next cron time.
C28_Step ==
    /\ tasks'.monitors <= 1 /\ tasks'.watchdogs <= 1
    /\ ev'.op = "on_ready" =>
           /\ tasks'.monitors = 1 /\ tasks'.watchdogs = 1
           /\ tasks'.monitor = "alive" /\ sched'.watchdog
           /\ RunningWithBothJobs(sched')
           /\ sched'.jobs["daily_market_report"] = CronNext(ReportTod, now)
           /\ sched'.jobs["daily_reset"] = CronNext(ResetTod, now)

-----------------------------------------------------------------------------
(* What a call served from the live-price cache returns *)

\* C29: a quote is immutable once returned.  A fetch_current_price call that
\* is served from the cache right after the call that fetched and stored the
\* entry returns the same (price, as-of date) pair as that call.
C29_Step ==
    (/\ ev.op = "fetch_current_price" /\ ev.ret = "ok" /\ ev.upstream = ev.syms
     /\ ev'.op = "fetch_current_price" /\ ev'.syms = ev.syms /\ ev'.upstream = <<>>) =>
        /\ ev'.ret = "ok"
        /\ ev'.price = ev.price
        /\ ev'.date = ev.date

C29_CachedQuoteIdentical == [][C29_Step]_vars

-----------------------------------------------------------------------------
(* query_deepseek (src/ai/deepseek_llm.py): the retry loop around the POST to
   the model server.  tasks.query is the call: attempt is the loop variable of
   `for attempt in range(max_retries)`, posts the number of requests made,
   inflight the number of requests not yet answered, log how the requests
   made so far ended *)

\* The largest max_retries a caller passes.
MaxRetries == 4

\* How a POST ends: status 200 with its JSON body, status 404, another status,
\* asyncio.TimeoutError after the 60 s timeout, an aiohttp.ClientError.
PostOutcomes == {"200", "404", "500", "timeout", "clienterror"}

\* The exception an unsuccessful attempt raises inside the try block.
AttemptError(outcome) ==
    IF outcome = "timeout" THEN "TimeoutError"
    ELSE IF outcome = "clienterror" THEN "ClientError"
    ELSE "ConnectionError"

\* Mutant: the test for the last attempt is off by one.
LastAttempt_OffByOne(attempt, max_retries) == attempt = max_retries

\* `if attempt == max_retries - 1: raise`
LastAttempt(attempt, max_retries) == attempt = max_retries - 1

QueryFrame ==
    UNCHANGED <<now, announced_changes, daily_report_sent, last_report_date,
                yesterdays_closes, last_close_fetch, last_price_check,
                last_daily_report, closing_memo, price_cache, sched,
                channels_file, tickers_file>>

\* A caller awaits query_deepseek(prompt, max_retries=n).
QueryCalled ==
    /\ tasks.query.state = "idle"
    /\ \E n \in 0..MaxRetries :
        /\ tasks' = [tasks EXCEPT !.query = [NoQuery EXCEPT !.state = "looping",
                                                             !.max_retries = n]]
        /\ ev' = [BaseEv("query_deepseek") EXCEPT !.last = n]
    /\ QueryFrame

\* The loop starts its next iteration and sends the POST, or is exhausted and
\* the function falls off its end (it returns None).
AttemptBegins ==
    LET q == tasks.query IN
    /\ q.state = "looping" /\ q.inflight = 0
    /\ IF q.attempt < q.max_retries
       THEN /\ tasks' = [tasks EXCEPT !.query.posts = @ + 1, !.query.inflight = @ + 1]
            /\ ev' = [BaseEv("post") EXCEPT !.last = q.attempt + 1]
       ELSE /\ tasks' = [tasks EXCEPT !.query.state = "returned",
                                      !.query.result = <<"None">>]
            /\ ev' = [BaseEv("query_end") EXCEPT !.ret = "returned"]
    /\ QueryFrame

\* The POST is answered or fails; the function returns, raises, or sleeps 2 s
\* and goes round again.
AttemptEnds ==
    LET q == tasks.query IN
    /\ q.state = "looping" /\ q.inflight = 1
    /\ \E outcome \in PostOutcomes :
        /\ tasks' =
             IF outcome = "200"
             THEN [tasks EXCEPT !.query.inflight = 0, !.query.state = "returned",
                                !.query.log = Append(@, outcome),
                                !.query.result = <<"response", q.posts>>]
             ELSE IF LastAttempt(q.attempt, q.max_retries)
             THEN [tasks EXCEPT !.query.inflight = 0, !.query.state = "raised",
                                !.query.log = Append(@, outcome),
                                !.query.result = <<AttemptError(outcome), q.posts>>]
             ELSE [tasks EXCEPT !.query.inflight = 0, !.query.attempt = @ + 1,
                                !.query.log = Append(@, outcome)]
        /\ ev' = [BaseEv("answer") EXCEPT !.ret = outcome, !.last = q.posts]
    /\ QueryFrame

\* The caller takes the result; the next call can be made.
QueryOver ==
    /\ tasks.query.state \in {"returned", "raised"}
    /\ tasks' = [tasks EXCEPT !.query = NoQuery]
    /\ ev' = BaseEv("query_over")
    /\ QueryFrame

NextQuery == QueryCalled \/ AttemptBegins \/ AttemptEnds \/ QueryOver

\* Every POST carries timeout=60 and every pause is a sleep of 2 s: a request
\* in flight ends and a loop that can go on does.
SpecQuery ==
    /\ InitAnnounce /\ [][NextQuery]_vars
    /\ WF_vars(AttemptBegins) /\ WF_vars(AttemptEnds)

\* C30, steps of a call with max_retries = n >= 1: requests are made one after
\* another and never more than n; the answer 200 ends the call with that
\* attempt's response; a failure before the n-th attempt leads to another
\* attempt; the failure of the n-th attempt ends the call with that attempt's
\* error; once ended, the call makes no request.
C30_Step ==
    LET q == tasks.query
        q1 == tasks'.query
    IN  (q.state # "idle" /\ q.max_retries >= 1) =>
        /\ q1.inflight <= 1 /\ q1.posts <= q.max_retries
        /\ q1.posts > q.posts => (q.inflight = 0 /\ q.state = "looping")
        /\ (ev'.op = "answer" /\ ev'.ret = "200") =>
               q1.state = "returned" /\ q1.result = <<"response", q.posts>>
        /\ (ev'.op = "answer" /\ ev'.ret # "200" /\ q.posts < q.max_retries) =>
               q1.state = "looping" /\ q1.result = <<>>
        /\ (ev'.op = "answer" /\ ev'.ret # "200" /\ q.posts = q.max_retries) =>
               q1.state = "raised" /\ q1.result = <<AttemptError(ev'.ret), q.posts>>
        /\ q1.state = "returned" =>
               /\ q1.result = <<"response", Len(q1.log)>>
               /\ q1.log[Len(q1.log)] = "200"
               /\ \A i \in 1..(Len(q1.log) - 1) : q1.log[i] # "200"
        /\ q1.state = "raised" =>
               /\ Len(q1.log) = q.max_retries
               /\ \A i \in 1..Len(q1.log) : q1.log[i] # "200"
               /\ q1.result = <<AttemptError(q1.log[Len(q1.log)]), q.max_retries>>
        /\ q.state \in {"returned", "raised"} => q1.posts \in {0, q.posts}

=============================================================================
